---- MODULE Spec2Model ----
(***************************************************************************)
(* OpenFlash core: the framed wire protocol (core/src/protocol.rs) and the *)
(* write-ops engine (core/src/write_ops.rs): bad-block table, wear         *)
(* manager, chip programmer and chip cloner.                               *)
(*                                                                         *)
(* Each subsystem has its own specification over the shared variables:     *)
(*   SpecPacket  Packet::new / to_bytes / from_bytes                       *)
(*   SpecWear    a stand-alone WearLevelingManager                         *)
(*   Spec        a ChipProgrammer with its bad-block table and wear        *)
(*               manager                                                   *)
(*   SpecClone   ChipCloner::new / set_options / create_block_mapping      *)
(*   SpecUsb     the host's DeviceManager and the STM32 command handler    *)
(*   SpecNand    wait_ready of the RP2040 NAND drivers                     *)
(*   SpecTrack   ChangeTracker                                             *)
(*   SpecOnfi    the ONFI parameter page parser                            *)
(*   SpecGf      GaloisField (core/src/ecc.rs)                             *)
(*   SpecHamming HammingEcc, SpecBch BchEcc (core/src/ecc.rs)              *)
(*   SpecDumps   AiAnalyzer::compare_dumps (core/src/ai.rs)                *)
(*   SpecSpi     the RP2040 SPI NAND controller                            *)
(*   SpecUnpack  FirmwareUnpacker (core/src/ai_advanced.rs)                *)
(* A specification leaves the variables of the other subsystems at their   *)
(* idle values.                                                            *)
(***************************************************************************)
EXTENDS Integers, Sequences, FiniteSets, TLC

VARIABLES
    req,            \* the (cmd, args) last handed to Packet::new, or None
    packet,         \* Option<Packet>: the host's packet
    wire,           \* the bytes on the transport
    parsed,         \* Option<Packet>: what Packet::from_bytes returned
    pstage,         \* position of the packet exchange
    bbt,            \* BadBlockTable
    wear_manager,   \* WearLevelingManager
    options,        \* ProgramOptions
    ret,            \* the last call on the table/manager/programmer and its result
    erase_calls,    \* per block, the number of record_erase calls made so far
    cloner,         \* WriteResult<ChipCloner> of the last ChipCloner::new, or None
    mapping,        \* the last create_block_mapping call: its inputs and its result
    manager,        \* DeviceManager: active_device and the number of devices opened
    tasks,          \* the host's command tasks: operation, position, locals
    mutex,          \* per UsbDevice, the task holding its TokioMutex
    ep_out,         \* packets written by the host, not yet read by the firmware
    ep_in,          \* packets written by the firmware, not yet read by the host
    fw_log,         \* the last packet the firmware processed and what it wrote back
    nand,           \* the RP2040 NAND driver: operation, position, time waited
    chip,           \* the NAND chip: busy (R/B# low, OIP set) and whether it will finish
    tracker,        \* ChangeTracker
    marked,         \* the blocks passed to mark_modified since the last clear_modified
    onfi,           \* a parameter page read from a chip and what the parser made of it
    gf,             \* GaloisField: its tables, the position of new()'s loop, the last query
    hamming,        \* a sector under HammingEcc: data, code, corruption, result of correct
    bch,            \* a sector under BchEcc: codec, data, code, corruption, result of correct
    dumps,          \* two dumps handed to compare_dumps and the DumpDiff returned
    spi,            \* the RP2040 SPI NAND controller: the bus transactions of an operation
    unpacker        \* FirmwareUnpacker: its settings, an image and the sections extracted

packetVars == <<req, packet, wire, parsed, pstage>>
progVars   == <<bbt, wear_manager, options, ret, erase_calls>>
cloneVars  == <<cloner, mapping>>
usbVars    == <<manager, tasks, mutex, ep_out, ep_in, fw_log>>
nandVars   == <<nand, chip>>
trackVars  == <<tracker, marked>>
pureVars   == <<onfi, gf>>
lateVars   == <<hamming, bch, dumps, spi, unpacker>>
restVars   == <<nandVars, trackVars, pureVars, lateVars>>
extVars    == <<usbVars, restVars>>
vars       == <<req, packet, wire, parsed, pstage,
                bbt, wear_manager, options, ret, erase_calls,
                cloner, mapping,
                manager, tasks, mutex, ep_out, ep_in, fw_log,
                nand, chip, tracker, marked, onfi, gf,
                hamming, bch, dumps, spi, unpacker>>

\* Option<T>: None and Some(x), both sequences so that they compare.
None == <<>>
Some(x) == <<x>>

\* Result<T, E>
Ok(x) == [ok |-> TRUE, val |-> x]
Err(e) == [ok |-> FALSE, err |-> e]

Min(a, b) == IF a < b THEN a ELSE b

(***************************************************************************)
(* Wire protocol (core/src/protocol.rs)                                    *)
(***************************************************************************)

\* A packet is 64 bytes: one command byte and 63 argument bytes.
PACKET_SIZE == 64
ARGS_LEN == 63
BYTE == 256

\* enum Command: the variants
Command ==
    {"Ping", "BusConfig", "Reset", "SetInterface",
     "NandCmd", "NandAddr", "NandReadPage", "NandWritePage",
     "NandReadId", "NandErase", "NandReadStatus", "SpiNandReadId",
     "SpiNandReset", "SpiNandGetFeature", "SpiNandSetFeature", "SpiNandPageRead",
     "SpiNandReadCache", "SpiNandReadCacheX4", "SpiNandProgramLoad", "SpiNandProgramLoadX4",
     "SpiNandProgramExec", "SpiNandBlockErase", "SpiNandWriteEnable", "SpiNandWriteDisable",
     "EmmcInit", "EmmcReadCid", "EmmcReadCsd", "EmmcReadExtCsd",
     "EmmcReadBlock", "EmmcReadMultiple", "EmmcWriteBlock", "EmmcWriteMultiple",
     "EmmcErase", "EmmcGetStatus", "EmmcSetPartition", "SpiNorReadJedecId",
     "SpiNorReadSfdp", "SpiNorRead", "SpiNorFastRead", "SpiNorDualRead",
     "SpiNorQuadRead", "SpiNorPageProgram", "SpiNorSectorErase", "SpiNorBlockErase32K",
     "SpiNorBlockErase64K", "SpiNorChipErase", "SpiNorReadStatus1", "SpiNorReadStatus2",
     "SpiNorReadStatus3", "SpiNorWriteStatus1", "SpiNorWriteStatus2", "SpiNorWriteStatus3",
     "SpiNorWriteEnable", "SpiNorWriteDisable", "SpiNorReset", "UfsInit",
     "UfsReadDescriptor", "UfsReadCapacity", "UfsRead10", "UfsRead16",
     "UfsWrite10", "UfsWrite16", "UfsSelectLun", "UfsGetStatus",
     "FullChipProgram", "ReadBadBlockTable", "WriteBadBlockTable", "ScanBadBlocks",
     "MarkBadBlock", "GetWearInfo", "ProgramWithVerify", "EraseWithVerify",
     "IncrementalRead", "CloneStart", "CloneStatus", "CloneAbort",
     "BatchStart", "BatchStatus", "BatchAbort", "ScriptLoad",
     "ScriptRun", "ScriptStatus", "PluginList", "PluginLoad",
     "PluginUnload", "RemoteConnect", "RemoteDisconnect", "GetDeviceInfo"}

CommandCode(cmd) ==
    CASE cmd = "Ping" -> 1
      [] cmd = "BusConfig" -> 2
      [] cmd = "Reset" -> 8
      [] cmd = "SetInterface" -> 9
      [] cmd = "NandCmd" -> 16
      [] cmd = "NandAddr" -> 17
      [] cmd = "NandReadPage" -> 18
      [] cmd = "NandWritePage" -> 19
      [] cmd = "NandReadId" -> 20
      [] cmd = "NandErase" -> 21
      [] cmd = "NandReadStatus" -> 22
      [] cmd = "SpiNandReadId" -> 32
      [] cmd = "SpiNandReset" -> 33
      [] cmd = "SpiNandGetFeature" -> 34
      [] cmd = "SpiNandSetFeature" -> 35
      [] cmd = "SpiNandPageRead" -> 36
      [] cmd = "SpiNandReadCache" -> 37
      [] cmd = "SpiNandReadCacheX4" -> 38
      [] cmd = "SpiNandProgramLoad" -> 39
      [] cmd = "SpiNandProgramLoadX4" -> 40
      [] cmd = "SpiNandProgramExec" -> 41
      [] cmd = "SpiNandBlockErase" -> 42
      [] cmd = "SpiNandWriteEnable" -> 43
      [] cmd = "SpiNandWriteDisable" -> 44
      [] cmd = "EmmcInit" -> 64
      [] cmd = "EmmcReadCid" -> 65
      [] cmd = "EmmcReadCsd" -> 66
      [] cmd = "EmmcReadExtCsd" -> 67
      [] cmd = "EmmcReadBlock" -> 68
      [] cmd = "EmmcReadMultiple" -> 69
      [] cmd = "EmmcWriteBlock" -> 70
      [] cmd = "EmmcWriteMultiple" -> 71
      [] cmd = "EmmcErase" -> 72
      [] cmd = "EmmcGetStatus" -> 73
      [] cmd = "EmmcSetPartition" -> 74
      [] cmd = "SpiNorReadJedecId" -> 96
      [] cmd = "SpiNorReadSfdp" -> 97
      [] cmd = "SpiNorRead" -> 98
      [] cmd = "SpiNorFastRead" -> 99
      [] cmd = "SpiNorDualRead" -> 100
      [] cmd = "SpiNorQuadRead" -> 101
      [] cmd = "SpiNorPageProgram" -> 102
      [] cmd = "SpiNorSectorErase" -> 103
      [] cmd = "SpiNorBlockErase32K" -> 104
      [] cmd = "SpiNorBlockErase64K" -> 105
      [] cmd = "SpiNorChipErase" -> 106
      [] cmd = "SpiNorReadStatus1" -> 107
      [] cmd = "SpiNorReadStatus2" -> 108
      [] cmd = "SpiNorReadStatus3" -> 109
      [] cmd = "SpiNorWriteStatus1" -> 110
      [] cmd = "SpiNorWriteStatus2" -> 111
      [] cmd = "SpiNorWriteStatus3" -> 112
      [] cmd = "SpiNorWriteEnable" -> 113
      [] cmd = "SpiNorWriteDisable" -> 114
      [] cmd = "SpiNorReset" -> 115
      [] cmd = "UfsInit" -> 128
      [] cmd = "UfsReadDescriptor" -> 129
      [] cmd = "UfsReadCapacity" -> 130
      [] cmd = "UfsRead10" -> 131
      [] cmd = "UfsRead16" -> 132
      [] cmd = "UfsWrite10" -> 133
      [] cmd = "UfsWrite16" -> 134
      [] cmd = "UfsSelectLun" -> 135
      [] cmd = "UfsGetStatus" -> 136
      [] cmd = "FullChipProgram" -> 160
      [] cmd = "ReadBadBlockTable" -> 161
      [] cmd = "WriteBadBlockTable" -> 162
      [] cmd = "ScanBadBlocks" -> 163
      [] cmd = "MarkBadBlock" -> 164
      [] cmd = "GetWearInfo" -> 165
      [] cmd = "ProgramWithVerify" -> 166
      [] cmd = "EraseWithVerify" -> 167
      [] cmd = "IncrementalRead" -> 168
      [] cmd = "CloneStart" -> 169
      [] cmd = "CloneStatus" -> 170
      [] cmd = "CloneAbort" -> 171
      [] cmd = "BatchStart" -> 176
      [] cmd = "BatchStatus" -> 177
      [] cmd = "BatchAbort" -> 178
      [] cmd = "ScriptLoad" -> 179
      [] cmd = "ScriptRun" -> 180
      [] cmd = "ScriptStatus" -> 181
      [] cmd = "PluginList" -> 182
      [] cmd = "PluginLoad" -> 183
      [] cmd = "PluginUnload" -> 184
      [] cmd = "RemoteConnect" -> 185
      [] cmd = "RemoteDisconnect" -> 186
      [] cmd = "GetDeviceInfo" -> 187

\* A decoder whose match has a catch-all arm that yields a command.
from_u8_wildcard(value) == Some("Ping")

from_u8(value) ==
    CASE value = 1 -> Some("Ping")
      [] value = 2 -> Some("BusConfig")
      [] value = 8 -> Some("Reset")
      [] value = 9 -> Some("SetInterface")
      [] value \in {3, 16} -> Some("NandCmd")
      [] value \in {4, 17} -> Some("NandAddr")
      [] value \in {5, 18} -> Some("NandReadPage")
      [] value \in {6, 19} -> Some("NandWritePage")
      [] value \in {7, 20} -> Some("NandReadId")
      [] value = 21 -> Some("NandErase")
      [] value = 22 -> Some("NandReadStatus")
      [] value = 32 -> Some("SpiNandReadId")
      [] value = 33 -> Some("SpiNandReset")
      [] value = 34 -> Some("SpiNandGetFeature")
      [] value = 35 -> Some("SpiNandSetFeature")
      [] value = 36 -> Some("SpiNandPageRead")
      [] value = 37 -> Some("SpiNandReadCache")
      [] value = 38 -> Some("SpiNandReadCacheX4")
      [] value = 39 -> Some("SpiNandProgramLoad")
      [] value = 40 -> Some("SpiNandProgramLoadX4")
      [] value = 41 -> Some("SpiNandProgramExec")
      [] value = 42 -> Some("SpiNandBlockErase")
      [] value = 43 -> Some("SpiNandWriteEnable")
      [] value = 44 -> Some("SpiNandWriteDisable")
      [] value = 64 -> Some("EmmcInit")
      [] value = 65 -> Some("EmmcReadCid")
      [] value = 66 -> Some("EmmcReadCsd")
      [] value = 67 -> Some("EmmcReadExtCsd")
      [] value = 68 -> Some("EmmcReadBlock")
      [] value = 69 -> Some("EmmcReadMultiple")
      [] value = 70 -> Some("EmmcWriteBlock")
      [] value = 71 -> Some("EmmcWriteMultiple")
      [] value = 72 -> Some("EmmcErase")
      [] value = 73 -> Some("EmmcGetStatus")
      [] value = 74 -> Some("EmmcSetPartition")
      [] value = 96 -> Some("SpiNorReadJedecId")
      [] value = 97 -> Some("SpiNorReadSfdp")
      [] value = 98 -> Some("SpiNorRead")
      [] value = 99 -> Some("SpiNorFastRead")
      [] value = 100 -> Some("SpiNorDualRead")
      [] value = 101 -> Some("SpiNorQuadRead")
      [] value = 102 -> Some("SpiNorPageProgram")
      [] value = 103 -> Some("SpiNorSectorErase")
      [] value = 104 -> Some("SpiNorBlockErase32K")
      [] value = 105 -> Some("SpiNorBlockErase64K")
      [] value = 106 -> Some("SpiNorChipErase")
      [] value = 107 -> Some("SpiNorReadStatus1")
      [] value = 108 -> Some("SpiNorReadStatus2")
      [] value = 109 -> Some("SpiNorReadStatus3")
      [] value = 110 -> Some("SpiNorWriteStatus1")
      [] value = 111 -> Some("SpiNorWriteStatus2")
      [] value = 112 -> Some("SpiNorWriteStatus3")
      [] value = 113 -> Some("SpiNorWriteEnable")
      [] value = 114 -> Some("SpiNorWriteDisable")
      [] value = 115 -> Some("SpiNorReset")
      [] value = 128 -> Some("UfsInit")
      [] value = 129 -> Some("UfsReadDescriptor")
      [] value = 130 -> Some("UfsReadCapacity")
      [] value = 131 -> Some("UfsRead10")
      [] value = 132 -> Some("UfsRead16")
      [] value = 133 -> Some("UfsWrite10")
      [] value = 134 -> Some("UfsWrite16")
      [] value = 135 -> Some("UfsSelectLun")
      [] value = 136 -> Some("UfsGetStatus")
      [] value = 160 -> Some("FullChipProgram")
      [] value = 161 -> Some("ReadBadBlockTable")
      [] value = 162 -> Some("WriteBadBlockTable")
      [] value = 163 -> Some("ScanBadBlocks")
      [] value = 164 -> Some("MarkBadBlock")
      [] value = 165 -> Some("GetWearInfo")
      [] value = 166 -> Some("ProgramWithVerify")
      [] value = 167 -> Some("EraseWithVerify")
      [] value = 168 -> Some("IncrementalRead")
      [] value = 169 -> Some("CloneStart")
      [] value = 170 -> Some("CloneStatus")
      [] value = 171 -> Some("CloneAbort")
      [] value = 176 -> Some("BatchStart")
      [] value = 177 -> Some("BatchStatus")
      [] value = 178 -> Some("BatchAbort")
      [] value = 179 -> Some("ScriptLoad")
      [] value = 180 -> Some("ScriptRun")
      [] value = 181 -> Some("ScriptStatus")
      [] value = 182 -> Some("PluginList")
      [] value = 183 -> Some("PluginLoad")
      [] value = 184 -> Some("PluginUnload")
      [] value = 185 -> Some("RemoteConnect")
      [] value = 186 -> Some("RemoteDisconnect")
      [] value = 187 -> Some("GetDeviceInfo")
      [] OTHER -> None

\* Argument slices handed to Packet::new: short ones, and ones around the
\* 63-byte argument region (shorter: zero-padded; longer: truncated).
MaxShort == 3
MaxOver == 2
ByteSeeds == {0, 100, 255}
ArgLens == (0..MaxShort) \cup ((ARGS_LEN - MaxOver)..(ARGS_LEN + MaxOver))
ArgSlice(len, seed) == [i \in 1..len |-> (seed + i) % BYTE]

\* Buffers arriving from the transport that no Packet::to_bytes produced:
\* any first byte, lengths around the packet size.
RawLens == {0, 1} \cup ((PACKET_SIZE - 1)..(PACKET_SIZE + 1))
RawBuffer(len, first) == [i \in 1..len |-> IF i = 1 THEN first ELSE (first + i) % BYTE]

\* Packet::new: copy min(len, 63) bytes of args into a zeroed [u8; 63].
Packet_new(cmd, args) ==
    LET copy_len == Min(Len(args), ARGS_LEN)
    IN  [cmd |-> cmd,
         args |-> [i \in 1..ARGS_LEN |-> IF i <= copy_len THEN args[i] ELSE 0]]

\* Packet::to_bytes: bytes[0] = cmd as u8, bytes[1..] = args.
to_bytes(p) ==
    [i \in 1..PACKET_SIZE |-> IF i = 1 THEN CommandCode(p.cmd) ELSE p.args[i - 1]]

\* Packet::from_bytes with the argument region read one byte too early.
from_bytes_shifted(bytes) ==
    IF Len(bytes) < PACKET_SIZE
    THEN None
    ELSE LET cmd == from_u8(bytes[1])
         IN  IF cmd = None
             THEN None
             ELSE Some([cmd |-> cmd[1],
                        args |-> [i \in 1..ARGS_LEN |-> bytes[i]]])

\* Packet::from_bytes: None for a short buffer or an unknown command byte,
\* else the command and bytes[1..64].
from_bytes(bytes) ==
    IF Len(bytes) < PACKET_SIZE
    THEN None
    ELSE LET cmd == from_u8(bytes[1])
         IN  IF cmd = None
             THEN None
             ELSE Some([cmd |-> cmd[1],
                        args |-> [i \in 1..ARGS_LEN |-> bytes[i + 1]]])

PacketIdle ==
    /\ req = None
    /\ packet = None
    /\ wire = <<>>
    /\ parsed = None
    /\ pstage = "idle"

\* The host builds a packet from its request: Packet::new(cmd, args).
New ==
    /\ pstage = "request"
    /\ packet' = Some(Packet_new(req[1].cmd, req[1].args))
    /\ pstage' = "built"
    /\ UNCHANGED <<req, wire, parsed, progVars, cloneVars, extVars>>

\* The host writes the packet to the transport: packet.to_bytes().
Encode ==
    /\ pstage = "built"
    /\ wire' = to_bytes(packet[1])
    /\ pstage' = "encoded"
    /\ UNCHANGED <<req, packet, parsed, progVars, cloneVars, extVars>>

\* The receiver parses the buffer: Packet::from_bytes(&bytes).
Decode ==
    /\ pstage = "encoded"
    /\ parsed' = from_bytes(wire)
    /\ pstage' = "decoded"
    /\ UNCHANGED <<req, packet, wire, progVars, cloneVars, extVars>>

NextPacket ==
    \/ New
    \/ Encode
    \/ Decode

(***************************************************************************)
(* Bad-block table (core/src/write_ops.rs)                                 *)
(***************************************************************************)

\* WriteError values
NoSpareBlocks == [kind |-> "NoSpareBlocks"]
WearLimitExceeded(block) == [kind |-> "WearLimitExceeded", block |-> block]
BadBlock(block) == [kind |-> "BadBlock", block |-> block]

\* enum BadBlockReason
BadBlockReason == {"Factory", "EraseFail", "ProgramFail", "EccFail", "WearOut", "UserMarked"}

\* The chip under the programmer, and the blocks the calls are made on: the
\* first blocks of the chip and the blocks at and just below the spare pool.
TotalBlocks == 100
TestBlocks == {0} \cup ((TotalBlocks - 3)..(TotalBlocks - 1))
\* The reason the calls pass to mark_bad (a scan passes Factory).
MarkReasons == {"EraseFail"}

\* BadBlockTable::new: the spare pool is the last spare_percentage % of the
\* chip, handed out from index next_spare on. (A BadBlockEntry's timestamp is
\* the wall clock and is left out.)
BadBlockTable_new(total_blocks, spare_percentage) ==
    LET spare_count == (total_blocks * spare_percentage) \div 100
        spare_start == total_blocks - spare_count
    IN  [entries |-> <<>>,
         spare_blocks |-> [i \in 1..spare_count |-> spare_start + i - 1],
         next_spare |-> 0,
         total_blocks |-> total_blocks,
         spare_count |-> spare_count]

is_bad(t, block) == block \in DOMAIN t.entries

get_replacement(t, block) ==
    IF block \in DOMAIN t.entries THEN t.entries[block].replacement ELSE None

\* An allocator that answers an exhausted pool with "no replacement".
allocate_spare_lenient(t) ==
    IF t.next_spare >= Len(t.spare_blocks)
    THEN [res |-> Ok(None), bbt |-> t]
    ELSE [res |-> Ok(Some(t.spare_blocks[t.next_spare + 1])),
          bbt |-> [t EXCEPT !.next_spare = @ + 1]]

\* allocate_spare: the next spare of the pool, or NoSpareBlocks.
allocate_spare(t) ==
    IF t.next_spare >= Len(t.spare_blocks)
    THEN [res |-> Err(NoSpareBlocks), bbt |-> t]
    ELSE [res |-> Ok(Some(t.spare_blocks[t.next_spare + 1])),
          bbt |-> [t EXCEPT !.next_spare = @ + 1]]

\* A mark_bad without the early return for a block that is already bad.
mark_bad_again(t, block, reason) ==
    IF t.next_spare >= Len(t.spare_blocks)
    THEN [res |-> Err(NoSpareBlocks), bbt |-> t]
    ELSE LET spare == Some(t.spare_blocks[t.next_spare + 1])
         IN  [res |-> Ok(spare),
              bbt |-> [t EXCEPT !.next_spare = @ + 1,
                                !.entries =
                                   (block :> [bad_block |-> block,
                                              replacement |-> spare,
                                              reason |-> reason]) @@ @]]

\* mark_bad: an already bad block returns its replacement; otherwise a spare is
\* allocated (the error is propagated by `?`) and the entry inserted.
mark_bad(t, block, reason) ==
    IF block \in DOMAIN t.entries
    THEN [res |-> Ok(t.entries[block].replacement), bbt |-> t]
    ELSE LET a == allocate_spare(t)
         IN  IF ~a.res.ok
             THEN [res |-> a.res, bbt |-> a.bbt]
             ELSE [res |-> Ok(a.res.val),
                   bbt |-> [a.bbt EXCEPT !.entries =
                               (block :> [bad_block |-> block,
                                          replacement |-> a.res.val,
                                          reason |-> reason]) @@ @]]

bad_blocks(t) == DOMAIN t.entries
bad_count(t) == Cardinality(DOMAIN t.entries)
available_spares(t) == Len(t.spare_blocks) - t.next_spare

\* translate: the replacement if there is one, else the block itself.
translate(t, logical) ==
    LET r == get_replacement(t, logical)
    IN  IF r = None THEN logical ELSE r[1]

\* scan_factory_bad_blocks: mark_bad(block, Factory) for every marker that is
\* not 0xFF, in order, the results dropped (`let _ =`).
GOOD_MARKER == 255
RECURSIVE scan_factory_bad_blocks(_, _)
scan_factory_bad_blocks(t, oob_markers) ==
    IF oob_markers = <<>>
    THEN t
    ELSE LET block == Head(oob_markers)[1]
             marker == Head(oob_markers)[2]
             next == IF marker # GOOD_MARKER
                     THEN mark_bad(t, block, "Factory").bbt
                     ELSE t
         IN  scan_factory_bad_blocks(next, Tail(oob_markers))

(***************************************************************************)
(* Wear leveling (core/src/write_ops.rs)                                   *)
(***************************************************************************)

\* BlockWearInfo::default(). (last_access is the wall clock and is left out.)
BlockWearInfo_default == [erase_count |-> 0, program_count |-> 0, is_hot |-> FALSE]

WearLevelingManager_new(total_blocks, max_erase_cycles) ==
    [block_info |-> <<>>,
     max_erase_cycles |-> max_erase_cycles,
     wear_threshold |-> max_erase_cycles \div 10,
     total_blocks |-> total_blocks]

\* block_info.entry(block).or_default()
entry_or_default(wm, block) ==
    IF block \in DOMAIN wm.block_info THEN wm.block_info[block] ELSE BlockWearInfo_default

\* A record_erase that checks the limit first and counts only the erases it
\* accepts.
record_erase_checked(wm, block) ==
    LET info == entry_or_default(wm, block)
    IN  IF info.erase_count + 1 >= wm.max_erase_cycles
        THEN [res |-> Err(WearLimitExceeded(block)), wear_manager |-> wm]
        ELSE [res |-> Ok(<<>>),
              wear_manager |->
                 [wm EXCEPT !.block_info =
                    (block :> [info EXCEPT !.erase_count = @ + 1]) @@ @]]

\* record_erase: the count is incremented first and stays incremented; the
\* call fails when the new count has reached max_erase_cycles.
record_erase(wm, block) ==
    LET info == [entry_or_default(wm, block) EXCEPT !.erase_count = @ + 1]
        next == [wm EXCEPT !.block_info = (block :> info) @@ @]
    IN  [res |-> IF info.erase_count >= wm.max_erase_cycles
                 THEN Err(WearLimitExceeded(block))
                 ELSE Ok(<<>>),
         wear_manager |-> next]

record_program(wm, block) ==
    LET info == [entry_or_default(wm, block) EXCEPT !.program_count = @ + 1]
    IN  [wm EXCEPT !.block_info = (block :> info) @@ @]

get_erase_count(wm, block) ==
    IF block \in DOMAIN wm.block_info THEN wm.block_info[block].erase_count ELSE 0

\* The largest max_erase_cycles a manager is built with; the largest erase
\* count a stand-alone manager's block is driven to; the blocks and the
\* program counts of the stand-alone manager; the number of erases a
\* programmer records in all.
MaxCycles == 2
EraseCap == MaxCycles + 2
MaxWearBlock == 1
WearBlocks == 0..MaxWearBlock
MaxPrograms == 1
MaxErases == 2
RECURSIVE SumErases(_, _)
SumErases(wm, blocks) ==
    IF blocks = {}
    THEN 0
    ELSE LET b == CHOOSE x \in blocks : TRUE
         IN  get_erase_count(wm, b) + SumErases(wm, blocks \ {b})

(***************************************************************************)
(* Chip programmer (core/src/write_ops.rs)                                 *)
(***************************************************************************)

\* ProgramOptions::default(), the fields prepare_block reads.
ProgramOptions_default == [skip_bad_blocks |-> TRUE, wear_leveling |-> FALSE]
ProgramOptions == [skip_bad_blocks : BOOLEAN, wear_leveling : BOOLEAN]

\* ChipProgrammer::new reserves 2 % of the chip as spares.
SPARE_PERCENT == 2

\* prepare_block that hands out the replacement whatever skip_bad_blocks says.
prepare_block_always_skip(t, wm, opts, block) ==
    IF is_bad(t, block)
    THEN IF get_replacement(t, block) # None
         THEN [res |-> Ok(get_replacement(t, block)[1]), wear_manager |-> wm]
         ELSE [res |-> Err(BadBlock(block)), wear_manager |-> wm]
    ELSE LET physical_block == translate(t, block)
         IN  IF opts.wear_leveling
             THEN LET r == record_erase(wm, physical_block)
                  IN  IF ~r.res.ok
                      THEN [res |-> r.res, wear_manager |-> r.wear_manager]
                      ELSE [res |-> Ok(physical_block), wear_manager |-> r.wear_manager]
             ELSE [res |-> Ok(physical_block), wear_manager |-> wm]

\* prepare_block: a bad block returns its replacement at once when
\* skip_bad_blocks is set and fails with BadBlock otherwise; a good block is
\* translated, its erase recorded when wear_leveling is set (the error
\* propagated by `?`), and returned.
prepare_block(t, wm, opts, block) ==
    IF is_bad(t, block)
    THEN IF opts.skip_bad_blocks /\ get_replacement(t, block) # None
         THEN [res |-> Ok(get_replacement(t, block)[1]), wear_manager |-> wm]
         ELSE [res |-> Err(BadBlock(block)), wear_manager |-> wm]
    ELSE LET physical_block == translate(t, block)
         IN  IF opts.wear_leveling
             THEN LET r == record_erase(wm, physical_block)
                  IN  IF ~r.res.ok
                      THEN [res |-> r.res, wear_manager |-> r.wear_manager]
                      ELSE [res |-> Ok(physical_block), wear_manager |-> r.wear_manager]
             ELSE [res |-> Ok(physical_block), wear_manager |-> wm]

NoCall == [op |-> "none"]

ProgIdle ==
    /\ bbt = BadBlockTable_new(0, 0)
    /\ wear_manager = WearLevelingManager_new(0, 0)
    /\ options = ProgramOptions_default
    /\ ret = NoCall
    /\ erase_calls = <<>>

Calls(block) == IF block \in DOMAIN erase_calls THEN erase_calls[block] ELSE 0

\* programmer.bad_block_table_mut().mark_bad(block, reason)
MarkBad(block, reason) ==
    LET r == mark_bad(bbt, block, reason)
    IN  /\ bbt' = r.bbt
        /\ ret' = [op |-> "mark_bad", block |-> block, res |-> r.res]
        /\ UNCHANGED <<wear_manager, options, erase_calls, packetVars, cloneVars, extVars>>

\* programmer.bad_block_table_mut().scan_factory_bad_blocks(&oob_markers)
ScanFactoryBadBlocks(oob_markers) ==
    /\ bbt' = scan_factory_bad_blocks(bbt, oob_markers)
    /\ ret' = [op |-> "scan_factory_bad_blocks", markers |-> oob_markers]
    /\ UNCHANGED <<wear_manager, options, erase_calls, packetVars, cloneVars, extVars>>

\* programmer.set_options(opts)
SetOptions(opts) ==
    /\ options' = opts
    /\ ret' = [op |-> "set_options"]
    /\ UNCHANGED <<bbt, wear_manager, erase_calls, packetVars, cloneVars, extVars>>

\* programmer.prepare_block(block)
PrepareBlock(block) ==
    LET r == prepare_block(bbt, wear_manager, options, block)
        p == translate(bbt, block)
    IN  /\ SumErases(r.wear_manager, DOMAIN r.wear_manager.block_info) <= MaxErases
        /\ wear_manager' = r.wear_manager
        /\ erase_calls' = IF r.wear_manager # wear_manager
                          THEN (p :> (Calls(p) + 1)) @@ erase_calls
                          ELSE erase_calls
        /\ ret' = [op |-> "prepare_block", block |-> block, res |-> r.res]
        /\ UNCHANGED <<bbt, options, packetVars, cloneVars, extVars>>

\* wear_manager.record_erase(block) on a stand-alone manager
RecordErase(block) ==
    LET r == record_erase(wear_manager, block)
    IN  /\ Calls(block) < EraseCap
        /\ wear_manager' = r.wear_manager
        /\ erase_calls' = (block :> (Calls(block) + 1)) @@ erase_calls
        /\ ret' = [op |-> "record_erase", block |-> block, res |-> r.res]
        /\ UNCHANGED <<bbt, options, packetVars, cloneVars, extVars>>

\* wear_manager.record_program(block) on a stand-alone manager
RecordProgram(block) ==
    /\ entry_or_default(wear_manager, block).program_count < MaxPrograms
    /\ wear_manager' = record_program(wear_manager, block)
    /\ ret' = [op |-> "record_program", block |-> block]
    /\ UNCHANGED <<bbt, options, erase_calls, packetVars, cloneVars, extVars>>

\* Marker lists handed to scan_factory_bad_blocks: a scan of the test blocks
\* in ascending order, each with its first OOB byte (0xFF good, 0x00 bad).
MarkerBytes == {GOOD_MARKER, 0}
RECURSIVE Ascending(_)
Ascending(S) ==
    IF S = {}
    THEN <<>>
    ELSE LET m == CHOOSE x \in S : \A y \in S : x <= y
         IN  <<m>> \o Ascending(S \ {m})
MarkerLists ==
    {[i \in 1..Cardinality(TestBlocks) |->
         <<Ascending(TestBlocks)[i], f[Ascending(TestBlocks)[i]]>>] :
       f \in [TestBlocks -> MarkerBytes]}

NextProg ==
    \/ \E block \in TestBlocks, reason \in MarkReasons : MarkBad(block, reason)
    \/ \E markers \in MarkerLists : ScanFactoryBadBlocks(markers)
    \/ \E opts \in ProgramOptions : SetOptions(opts)
    \/ \E block \in TestBlocks : PrepareBlock(block)

NextWear ==
    \/ \E block \in WearBlocks : RecordErase(block)
    \/ \E block \in WearBlocks : RecordProgram(block)

(***************************************************************************)
(* Chip cloner (core/src/write_ops.rs)                                     *)
(***************************************************************************)

\* enum CloneMode
CloneMode == {"Exact", "SkipBadBlocks", "WearAware"}

\* CloneOptions::default(), the fields the cloner reads.
CloneOptions_default == [mode |-> "SkipBadBlocks", allow_different_models |-> FALSE]

ChipMismatch(source, target) == [kind |-> "ChipMismatch", source |-> source, target |-> target]

\* ChipCloner::new with the capacity test the wrong way round at equality.
ChipCloner_new_strict(sps, sppb, stb, tps, tppb, ttb) ==
    LET source_capacity == sps * sppb * stb
        target_capacity == tps * tppb * ttb
    IN  IF target_capacity <= source_capacity
        THEN Err(ChipMismatch((source_capacity \div 1024) \div 1024,
                              (target_capacity \div 1024) \div 1024))
        ELSE Ok([options |-> CloneOptions_default,
                 source_page_size |-> sps,
                 source_pages_per_block |-> sppb,
                 source_total_blocks |-> stb,
                 target_page_size |-> tps,
                 target_pages_per_block |-> tppb,
                 target_total_blocks |-> ttb])

\* ChipCloner::new: ChipMismatch (carrying the two capacities in MB) when the
\* target capacity is below the source capacity; nothing else is tested.
ChipCloner_new(sps, sppb, stb, tps, tppb, ttb) ==
    LET source_capacity == sps * sppb * stb
        target_capacity == tps * tppb * ttb
    IN  IF target_capacity < source_capacity
        THEN Err(ChipMismatch((source_capacity \div 1024) \div 1024,
                              (target_capacity \div 1024) \div 1024))
        ELSE Ok([options |-> CloneOptions_default,
                 source_page_size |-> sps,
                 source_pages_per_block |-> sppb,
                 source_total_blocks |-> stb,
                 target_page_size |-> tps,
                 target_pages_per_block |-> tppb,
                 target_total_blocks |-> ttb])

\* bad_blocks.iter().copied().collect::<HashSet<_>>()
ToSet(list) == {list[i] : i \in 1..Len(list)}

\* `while target_block < target_total_blocks && target_bad.contains(..)`
RECURSIVE next_good_target(_, _, _)
next_good_target(c, target_bad, target_block) ==
    IF target_block < c.target_total_blocks /\ target_block \in target_bad
    THEN next_good_target(c, target_bad, target_block + 1)
    ELSE target_block

\* The body of `for source_block in 0..source_total_blocks`, from source_block
\* on, with the target cursor never advanced after an insert.
RECURSIVE mapping_loop_stuck(_, _, _, _, _)
mapping_loop_stuck(c, source_bad, target_bad, source_block, st) ==
    IF source_block >= c.source_total_blocks
    THEN st.mapping
    ELSE IF c.options.mode = "SkipBadBlocks" /\ source_block \in source_bad
         THEN mapping_loop_stuck(c, source_bad, target_bad, source_block + 1, st)
         ELSE LET tb == next_good_target(c, target_bad, st.target_block)
              IN  IF tb < c.target_total_blocks
                  THEN mapping_loop_stuck(c, source_bad, target_bad, source_block + 1,
                                    [mapping |-> (source_block :> tb) @@ st.mapping,
                                     target_block |-> tb])
                  ELSE mapping_loop_stuck(c, source_bad, target_bad, source_block + 1,
                                    [mapping |-> st.mapping, target_block |-> tb])

\* The body of `for source_block in 0..source_total_blocks`, from source_block
\* on: st is (mapping, target_block). Only SkipBadBlocks skips a bad source
\* block; every mode skips the bad target blocks; a source block is left out
\* once the target is used up.
RECURSIVE mapping_loop(_, _, _, _, _)
mapping_loop(c, source_bad, target_bad, source_block, st) ==
    IF source_block >= c.source_total_blocks
    THEN st.mapping
    ELSE IF c.options.mode = "SkipBadBlocks" /\ source_block \in source_bad
         THEN mapping_loop(c, source_bad, target_bad, source_block + 1, st)
         ELSE LET tb == next_good_target(c, target_bad, st.target_block)
              IN  IF tb < c.target_total_blocks
                  THEN mapping_loop(c, source_bad, target_bad, source_block + 1,
                                    [mapping |-> (source_block :> tb) @@ st.mapping,
                                     target_block |-> tb + 1])
                  ELSE mapping_loop(c, source_bad, target_bad, source_block + 1,
                                    [mapping |-> st.mapping, target_block |-> tb])

\* create_block_mapping whose loop never advances the target cursor.
create_block_mapping_stuck(c, source_bad_blocks, target_bad_blocks) ==
    mapping_loop_stuck(c, ToSet(source_bad_blocks), ToSet(target_bad_blocks), 0,
                       [mapping |-> <<>>, target_block |-> 0])

\* create_block_mapping: the loop from source block 0 with an empty mapping and
\* the target cursor at 0.
create_block_mapping(c, source_bad_blocks, target_bad_blocks) ==
    mapping_loop(c, ToSet(source_bad_blocks), ToSet(target_bad_blocks), 0,
                 [mapping |-> <<>>, target_block |-> 0])

\* The chips offered to the cloner and the bad-block lists of a mapping.
MaxBlocks == 3
SourceGeometry == {<<2048, 64>>, <<4096, 64>>}
TargetGeometry == {<<2048, 64>>, <<2048, 128>>, <<4096, 64>>}
BadLists == {Ascending(S) : S \in SUBSET (0..MaxBlocks)}

CloneIdle ==
    /\ cloner = None
    /\ mapping = None

\* ChipCloner::new(...)
NewCloner(sps, sppb, stb, tps, tppb, ttb) ==
    /\ cloner = None
    /\ cloner' = Some([args |-> <<sps, sppb, stb, tps, tppb, ttb>>,
                       res |-> ChipCloner_new(sps, sppb, stb, tps, tppb, ttb)])
    /\ mapping' = None
    /\ UNCHANGED <<packetVars, progVars, extVars>>

\* cloner.set_options(options), on a cloner that was constructed
SetCloneOptions(opts) ==
    /\ cloner # None
    /\ cloner[1].res.ok
    /\ mapping = None
    /\ cloner' = Some([cloner[1] EXCEPT !.res.val.options = opts])
    /\ mapping' = None
    /\ UNCHANGED <<packetVars, progVars, extVars>>

\* cloner.create_block_mapping(&source_bad, &target_bad)
CreateBlockMapping(source_bad_blocks, target_bad_blocks) ==
    /\ cloner # None
    /\ cloner[1].res.ok
    /\ mapping = None
    /\ mapping' = Some([source_bad |-> source_bad_blocks,
                        target_bad |-> target_bad_blocks,
                        map |-> create_block_mapping(cloner[1].res.val,
                                                     source_bad_blocks,
                                                     target_bad_blocks)])
    /\ UNCHANGED <<cloner, packetVars, progVars, extVars>>

NextClone ==
    \/ \E sg \in SourceGeometry, tg \in TargetGeometry, stb, ttb \in 1..MaxBlocks :
          NewCloner(sg[1], sg[2], stb, tg[1], tg[2], ttb)
    \/ \E mode \in CloneMode, adm \in BOOLEAN :
          SetCloneOptions([mode |-> mode, allow_different_models |-> adm])
    \/ \E sb \in BadLists, tb \in BadLists : CreateBlockMapping(sb, tb)

(***************************************************************************)
(* USB link: the host's UsbDevice and DeviceManager                        *)
(* (gui/src-tauri/src/device.rs), its command tasks                        *)
(* (gui/src-tauri/src/command.rs) and the STM32F1 firmware's command       *)
(* handler (firmware/stm32f1/src/usb_handler.rs).  The mock device of the  *)
(* GUI is not connected.                                                   *)
(***************************************************************************)

\* ---- firmware ----
MAX_PAGE_SIZE == 4352
PAGE_FILL == 255
Status_Ok == 0
Status_Error == 1
Status_UnknownCommand == 255

\* The firmware's own Command enum and its discriminants.
FwCommand ==
    {"Ping", "BusConfig", "NandCmd", "NandAddr",
     "NandReadPage", "NandWritePage", "ReadId", "Reset"}

FwCommandCode(cmd) ==
    CASE cmd = "Ping" -> 1
      [] cmd = "BusConfig" -> 2
      [] cmd = "NandCmd" -> 3
      [] cmd = "NandAddr" -> 4
      [] cmd = "NandReadPage" -> 5
      [] cmd = "NandWritePage" -> 6
      [] cmd = "ReadId" -> 7
      [] cmd = "Reset" -> 8

\* The firmware's Command::from_u8.
fw_from_u8(val) ==
    CASE val = 1 -> Some("Ping")
      [] val = 2 -> Some("BusConfig")
      [] val = 3 -> Some("NandCmd")
      [] val = 4 -> Some("NandAddr")
      [] val = 5 -> Some("NandReadPage")
      [] val = 6 -> Some("NandWritePage")
      [] val = 7 -> Some("ReadId")
      [] val = 8 -> Some("Reset")
      [] OTHER -> None

u16_from_le_bytes(lo, hi) == lo + hi * BYTE

\* send_data_chunked(size): the packets written, page_buffer[offset..offset +
\* chunk_size] for each round of the loop.
RECURSIVE send_data_chunked_from(_, _)
send_data_chunked_from(size, offset) ==
    IF offset < size
    THEN LET chunk_size == Min(size - offset, PACKET_SIZE)
         IN  << [i \in 1..chunk_size |-> PAGE_FILL] >>
                 \o send_data_chunked_from(size, offset + chunk_size)
    ELSE <<>>

send_data_chunked(size) == send_data_chunked_from(size, 0)

\* handle_read_page(args): the packets written.
handle_read_page(args) ==
    IF Len(args) >= 6
    THEN LET page_size == u16_from_le_bytes(args[5], args[6])
             size == Min(page_size, MAX_PAGE_SIZE)
         IN  send_data_chunked(size)
    ELSE << <<FwCommandCode("NandReadPage"), Status_Error>> >>

\* The one-packet handlers.
handle_ping == << <<FwCommandCode("Ping"), Status_Ok>> >>

handle_bus_config(args) ==
    << <<FwCommandCode("BusConfig"),
         IF Len(args) >= 4 THEN Status_Ok ELSE Status_Error>> >>

handle_nand_cmd(args) ==
    << <<FwCommandCode("NandCmd"),
         IF args # <<>> THEN Status_Ok ELSE Status_Error>> >>

handle_nand_addr(args) ==
    << <<FwCommandCode("NandAddr"),
         IF args # <<>> THEN Status_Ok ELSE Status_Error>> >>

handle_read_id ==
    << <<FwCommandCode("ReadId"), Status_Ok, 236, 215, 16, 149, 68>> >>

handle_reset == << <<FwCommandCode("Reset"), Status_Ok>> >>

\* process_command(cmd_data): the packets the firmware writes back.
\* NandWritePage reads further packets from the host; no host operation
\* modelled here sends it.
process_command(cmd_data) ==
    IF cmd_data = <<>>
    THEN <<>>
    ELSE LET cmd_byte == cmd_data[1]
             args == Tail(cmd_data)
             cmd == fw_from_u8(cmd_byte)
         IN  CASE cmd = Some("Ping") -> handle_ping
               [] cmd = Some("BusConfig") -> handle_bus_config(args)
               [] cmd = Some("NandCmd") -> handle_nand_cmd(args)
               [] cmd = Some("NandAddr") -> handle_nand_addr(args)
               [] cmd = Some("NandReadPage") -> handle_read_page(args)
               [] cmd = Some("ReadId") -> handle_read_id
               [] cmd = Some("Reset") -> handle_reset
               [] cmd = None -> << <<Status_UnknownCommand>> >>

\* ---- host ----
u32_to_le_bytes(n) ==
    <<n % BYTE, (n \div BYTE) % BYTE,
      (n \div (BYTE * BYTE)) % BYTE, (n \div (BYTE * BYTE * BYTE)) % BYTE>>

u16_to_le_bytes(n) == <<n % BYTE, (n \div BYTE) % BYTE>>

\* claim_interface(0): the interface is claimed for exclusive use, so the
\* claim fails while a UsbDevice that holds it is alive.
claim_interface_shared(in_use) == Ok("interface")

claim_interface(in_use) ==
    IF in_use THEN Err("Failed to claim interface") ELSE Ok("interface")

\* The first byte of a command on the wire: the discriminant written by
\* Packet::to_bytes, or the legacy alias that Command::from_u8 still decodes
\* to the same command (sent by a host built against the legacy table).
LEGACY_READ_PAGE == 5

\* The bytes send_command writes for (cmd, args).
send_command_bytes(cmd, args) == to_bytes(Packet_new(cmd, args))

\* The bytes read_page writes for (page_addr, page_size).
read_page_bytes(legacy, page_addr, page_size) ==
    LET args == u32_to_le_bytes(page_addr) \o u16_to_le_bytes(page_size)
        data == send_command_bytes("NandReadPage", args)
    IN  IF legacy THEN [data EXCEPT ![1] = LEGACY_READ_PAGE] ELSE data

Tasks == {"t1", "t2"}
MaxConnects == 2
MaxChunks == 2
MaxPages == 1
DeviceIds == 1..MaxConnects
PageSizes ==
    {0, 1} \cup {k * PACKET_SIZE + d : k \in 1..MaxChunks, d \in {0, 1}}
HostOps ==
    {[name |-> "ping"], [name |-> "read_nand_id"]}
    \cup [name : {"dump_nand"}, legacy : BOOLEAN, start_page : {0},
          num_pages : 1..MaxPages, page_size : PageSizes]

IdleTask ==
    [pc |-> "idle", op |-> None, device |-> None, page |-> 0,
     page_data |-> <<>>, data |-> <<>>, result |-> None]

NoPacket == [cmd_data |-> <<>>, written |-> <<>>]

UsbIdle ==
    /\ manager = [active_device |-> None, opened |-> 0]
    /\ tasks = [t \in Tasks |-> IdleTask]
    /\ mutex = [d \in DeviceIds |-> None]
    /\ ep_out = <<>>
    /\ ep_in = <<>>
    /\ fw_log = NoPacket

\* A UsbDevice is alive, and holds its interface, while the manager or a task
\* holds its Arc.
InUse ==
    \/ manager.active_device # None
    \/ \E t \in Tasks : tasks[t].device # None

\* DeviceManager::connect(device_id), for a device that is plugged in.
Connect ==
    /\ manager.opened < MaxConnects
    /\ LET interface == claim_interface(InUse)
       IN  manager' =
             IF interface.ok
             THEN [active_device |-> Some(manager.opened + 1),
                   opened |-> manager.opened + 1]
             ELSE manager
    /\ UNCHANGED <<tasks, mutex, ep_out, ep_in, fw_log,
                   packetVars, progVars, cloneVars, restVars>>

\* DeviceManager::disconnect()
Disconnect ==
    /\ manager' = [manager EXCEPT !.active_device = None]
    /\ UNCHANGED <<tasks, mutex, ep_out, ep_in, fw_log,
                   packetVars, progVars, cloneVars, restVars>>

\* A command task starts (ping, read_nand_id, dump_nand): it takes the
\* manager's lock and clones the active device, or fails without one.
Begin(t, op) ==
    /\ tasks[t].pc = "idle"
    /\ tasks' = [tasks EXCEPT ![t] =
         IF manager.active_device = None
         THEN [IdleTask EXCEPT !.pc = "done", !.op = Some(op),
                               !.result = Some(Err("No device connected"))]
         ELSE [IdleTask EXCEPT !.pc = "lock", !.op = Some(op),
                               !.device = manager.active_device,
                               !.page = IF op.name = "dump_nand"
                                        THEN op.start_page ELSE 0]]
    /\ UNCHANGED <<manager, mutex, ep_out, ep_in, fw_log,
                   packetVars, progVars, cloneVars, restVars>>

\* device.lock().await
Lock(t) ==
    /\ tasks[t].pc = "lock"
    /\ mutex[tasks[t].device[1]] = None
    /\ mutex' = [mutex EXCEPT ![tasks[t].device[1]] = Some(t)]
    /\ tasks' = [tasks EXCEPT ![t].pc = "bulk_out"]
    /\ UNCHANGED <<manager, ep_out, ep_in, fw_log,
                   packetVars, progVars, cloneVars, restVars>>

\* send_command, first half: the command packet is written to EP_OUT.
BulkOut(t) ==
    /\ tasks[t].pc = "bulk_out"
    /\ LET op == tasks[t].op[1]
           data == CASE op.name = "ping" -> send_command_bytes("Ping", <<>>)
                     [] op.name = "read_nand_id" ->
                            send_command_bytes("NandReadId", <<>>)
                     [] op.name = "dump_nand" ->
                            read_page_bytes(op.legacy, tasks[t].page, op.page_size)
       IN  ep_out' = Append(ep_out, data)
    /\ tasks' = [tasks EXCEPT ![t].pc = "response"]
    /\ UNCHANGED <<manager, mutex, ep_in, fw_log,
                   packetVars, progVars, cloneVars, restVars>>

\* The task returns: the mutex guard and the Arc are dropped.
Returned(task, result) ==
    [task EXCEPT !.pc = "done", !.device = None, !.result = Some(result)]

\* read_page has collected page_data: dump_nand extends its data and reads
\* the next page or returns.
PageDone(task, page_data) ==
    LET op == task.op[1]
        data == task.data \o page_data
    IN  IF task.page + 1 < op.start_page + op.num_pages
        THEN [task EXCEPT !.pc = "bulk_out", !.page = task.page + 1,
                          !.page_data = <<>>, !.data = data]
        ELSE Returned([task EXCEPT !.page_data = <<>>, !.data = data], Ok(data))

\* send_command, second half: one packet is read from EP_IN as the response.
BulkInResponse(t) ==
    /\ tasks[t].pc = "response"
    /\ ep_in # <<>>
    /\ ep_in' = Tail(ep_in)
    /\ LET response == Head(ep_in)
           op == tasks[t].op[1]
           task == CASE op.name = "ping" ->
                          Returned(tasks[t],
                                   Ok(/\ Len(response) >= 2
                                      /\ response[1] = 1
                                      /\ response[2] = 0))
                     [] op.name = "read_nand_id" ->
                          Returned(tasks[t],
                                   IF Len(response) >= 7 /\ response[2] = 0
                                   THEN Ok(SubSeq(response, 3, 7))
                                   ELSE Err("Failed to read chip ID"))
                     [] op.name = "dump_nand" ->
                          IF 0 < op.page_size
                          THEN [tasks[t] EXCEPT !.pc = "chunks", !.page_data = <<>>]
                          ELSE PageDone(tasks[t], <<>>)
       IN  /\ tasks' = [tasks EXCEPT ![t] = task]
           /\ mutex' = IF task.pc = "done"
                       THEN [mutex EXCEPT ![tasks[t].device[1]] = None]
                       ELSE mutex
    /\ UNCHANGED <<manager, ep_out, fw_log, packetVars, progVars, cloneVars, restVars>>

\* read_page, one round of its loop: a chunk is read from EP_IN.
BulkInChunk(t) ==
    /\ tasks[t].pc = "chunks"
    /\ ep_in # <<>>
    /\ ep_in' = Tail(ep_in)
    /\ LET chunk == Head(ep_in)
           op == tasks[t].op[1]
           remaining == op.page_size - Len(tasks[t].page_data)
           to_copy == Min(remaining, Len(chunk))
           page_data == tasks[t].page_data \o SubSeq(chunk, 1, to_copy)
           task == IF Len(page_data) < op.page_size
                   THEN [tasks[t] EXCEPT !.page_data = page_data]
                   ELSE PageDone(tasks[t], page_data)
       IN  /\ tasks' = [tasks EXCEPT ![t] = task]
           /\ mutex' = IF task.pc = "done"
                       THEN [mutex EXCEPT ![tasks[t].device[1]] = None]
                       ELSE mutex
    /\ UNCHANGED <<manager, ep_out, fw_log, packetVars, progVars, cloneVars, restVars>>

\* handle_commands, one round: a packet is read and process_command writes
\* its packets.
HandleCommands ==
    /\ ep_out # <<>>
    /\ LET written == process_command(Head(ep_out))
       IN  /\ ep_in' = ep_in \o written
           /\ fw_log' = [cmd_data |-> Head(ep_out), written |-> written]
    /\ ep_out' = Tail(ep_out)
    /\ UNCHANGED <<manager, tasks, mutex, packetVars, progVars, cloneVars, restVars>>

NextUsb ==
    \/ Connect
    \/ Disconnect
    \/ \E t \in Tasks, op \in HostOps : Begin(t, op)
    \/ \E t \in Tasks : Lock(t)
    \/ \E t \in Tasks : BulkOut(t)
    \/ \E t \in Tasks : BulkInResponse(t)
    \/ \E t \in Tasks : BulkInChunk(t)
    \/ HandleCommands

(***************************************************************************)
(* RP2040 NAND drivers: ready polling of the parallel controller           *)
(* (firmware/rp2040/src/pio_nand.rs) and of the SPI controller             *)
(* (firmware/rp2040/src/spi_nand.rs)                                       *)
(***************************************************************************)
PIO_POLL_US == 1
SPI_POLL_US == 10
MaxElapsed == 5010

NandInterfaces == {"pio", "spi"}
NandOps == {"read_page", "program_page", "erase_block"}

NandIdle ==
    /\ nand = [iface |-> "none", op |-> "none", pc |-> "idle",
               elapsed |-> 0, result |-> None]
    /\ chip = [busy |-> FALSE, finishes |-> TRUE, fail |-> FALSE]

\* read_page / program_page / erase_block up to its wait_ready: the command
\* and address cycles are sent and the chip goes busy.  Whether the chip
\* will ever signal ready, and the fail bit of its status, are the chip's.
NandStart(iface, op, finishes, fail) ==
    /\ nand.pc = "idle"
    /\ nand' = [iface |-> iface, op |-> op, pc |-> "wait_ready",
                elapsed |-> 0, result |-> None]
    /\ chip' = [busy |-> TRUE, finishes |-> finishes, fail |-> fail]
    /\ UNCHANGED <<packetVars, progVars, cloneVars, usbVars, trackVars, pureVars, lateVars>>

\* The chip completes its array operation: R/B# goes high, OIP clears.
ChipReady ==
    /\ chip.busy
    /\ chip.finishes
    /\ chip' = [chip EXCEPT !.busy = FALSE]
    /\ UNCHANGED <<nand, packetVars, progVars, cloneVars, usbVars, trackVars, pureVars, lateVars>>

\* What the operation returns once wait_ready has returned: the page for a
\* read, the negated fail bit of the status for program and erase.
NandResult(op, fail) == IF op = "read_page" THEN "data" ELSE ~fail

\* One round of wait_ready's loop.  poll_us is the Timer::after period.
wait_ready_round(n, busy, fail, poll_us) ==
    IF busy
    THEN [n EXCEPT !.elapsed = n.elapsed + poll_us]
    ELSE [n EXCEPT !.pc = "done", !.result = Some(NandResult(n.op, fail))]

\* NandController::wait_ready: while rb.is_low() { Timer::after(1 us) }
PioWaitReady ==
    /\ nand.pc = "wait_ready"
    /\ nand.iface = "pio"
    /\ nand.elapsed < MaxElapsed
    /\ nand' = wait_ready_round(nand, chip.busy, chip.fail, PIO_POLL_US)
    /\ UNCHANGED <<chip, packetVars, progVars, cloneVars, usbVars, trackVars, pureVars, lateVars>>

\* SpiNandController::wait_ready: loop { if status & OIP == 0 { return };
\* Timer::after(10 us) }
SpiWaitReady ==
    /\ nand.pc = "wait_ready"
    /\ nand.iface = "spi"
    /\ nand.elapsed < MaxElapsed
    /\ nand' = wait_ready_round(nand, chip.busy, chip.fail, SPI_POLL_US)
    /\ UNCHANGED <<chip, packetVars, progVars, cloneVars, usbVars, trackVars, pureVars, lateVars>>

NextNand ==
    \/ \E iface \in NandInterfaces, op \in NandOps, finishes, fail \in BOOLEAN :
          NandStart(iface, op, finishes, fail)
    \/ ChipReady
    \/ PioWaitReady
    \/ SpiWaitReady

(***************************************************************************)
(* Change tracking for incremental backup (core/src/write_ops.rs)          *)
(***************************************************************************)
MaxTrackBlock == 2
MaxMarks == 3
MaxTime == 2
TrackBlocks == 0..MaxTrackBlock
Checksums == {17, 42}

ChangeTracker_new(total_blocks) ==
    [modified_blocks |-> {},
     block_checksums |-> <<>>,
     last_backup |-> 0,
     total_blocks |-> total_blocks]

mark_modified(t, block) ==
    [t EXCEPT !.modified_blocks = @ \cup {block}]

\* get_modified_blocks: the set collected into a Vec and sorted.
get_modified_blocks(t) == Ascending(t.modified_blocks)

update_checksum(t, block, checksum) ==
    [t EXCEPT !.block_checksums = (block :> checksum) @@ @]

get_checksum(t, block) ==
    IF block \in DOMAIN t.block_checksums THEN Some(t.block_checksums[block]) ELSE None

\* A clear_modified that only stamps the backup time.
clear_modified_stamp(t, now) == [t EXCEPT !.last_backup = now]

\* clear_modified: the set is cleared and last_backup becomes the current time.
clear_modified(t, now) ==
    [t EXCEPT !.modified_blocks = {}, !.last_backup = now]

modified_count(t) == Cardinality(t.modified_blocks)

TrackIdle ==
    /\ tracker = ChangeTracker_new(0)
    /\ marked = <<>>

\* tracker.mark_modified(block)
MarkModified(block) ==
    /\ Len(marked) < MaxMarks
    /\ tracker' = mark_modified(tracker, block)
    /\ marked' = Append(marked, block)
    /\ UNCHANGED <<packetVars, progVars, cloneVars, usbVars, nandVars, pureVars, lateVars>>

\* tracker.update_checksum(block, checksum)
UpdateChecksum(block, checksum) ==
    /\ tracker' = update_checksum(tracker, block, checksum)
    /\ UNCHANGED <<marked, packetVars, progVars, cloneVars, usbVars, nandVars, pureVars, lateVars>>

\* tracker.clear_modified(), at a time not before the last backup
ClearModified ==
    /\ \E now \in tracker.last_backup..MaxTime :
          tracker' = clear_modified(tracker, now)
    /\ marked' = <<>>
    /\ UNCHANGED <<packetVars, progVars, cloneVars, usbVars, nandVars, pureVars, lateVars>>

NextTrack ==
    \/ \E block \in TrackBlocks : MarkModified(block)
    \/ \E block \in TrackBlocks, checksum \in Checksums : UpdateChecksum(block, checksum)
    \/ ClearModified

(***************************************************************************)
(* ONFI parameter page (core/src/onfi.rs)                                  *)
(***************************************************************************)
ONFI_PAGE_LEN == 256
ONFI_SIGNATURE == <<79, 78, 70, 73>>

\* data[i] with Rust's 0-based index.
At(data, i) == data[i + 1]

\* &data[a..b]
Slice(data, a, b) == [k \in 1..(b - a) |-> data[a + k]]

u32_from_le_bytes(data, i) ==
    At(data, i) + At(data, i + 1) * BYTE + At(data, i + 2) * BYTE * BYTE
        + At(data, i + 3) * BYTE * BYTE * BYTE

\* str::trim on the text of an ASCII field: leading and trailing white space
\* (space, tab, line feed, vertical tab, form feed, carriage return) removed.
WhiteSpace == {32} \cup (9..13)
RECURSIVE TrimStart(_)
TrimStart(text) ==
    IF text # <<>> /\ Head(text) \in WhiteSpace THEN TrimStart(Tail(text)) ELSE text
RECURSIVE TrimEnd(_)
TrimEnd(text) ==
    IF text # <<>> /\ text[Len(text)] \in WhiteSpace
    THEN TrimEnd(SubSeq(text, 1, Len(text) - 1))
    ELSE text
Trim(text) == TrimEnd(TrimStart(text))

\* NandTiming::default()
NandTiming_default ==
    [tRP |-> 50, tWP |-> 50, tCLS |-> 50, tALS |-> 50, tRR |-> 40,
     tAR |-> 25, tCLR |-> 20, tRHW |-> 200, tWHR |-> 120, tR |-> 200]

\* parse_onfi_parameter_page(data).  For the pages drawn here every product
\* stays below 2^31, so neither the u32 product blocks_per_lun * luns nor the
\* cast of size_mb to u32 loses bits.
parse_onfi_parameter_page(data) ==
    IF Len(data) < ONFI_PAGE_LEN
    THEN None
    ELSE IF Slice(data, 0, 4) # ONFI_SIGNATURE
    THEN None
    ELSE LET manufacturer == Trim(Slice(data, 32, 44))
             model == Trim(Slice(data, 44, 64))
             page_size == u32_from_le_bytes(data, 80)
             oob_size == u16_from_le_bytes(At(data, 84), At(data, 85))
             pages_per_block == u32_from_le_bytes(data, 92)
             blocks_per_lun == u32_from_le_bytes(data, 96)
             luns == At(data, 100)
             total_blocks == blocks_per_lun * luns
             size_mb == ((total_blocks * pages_per_block * page_size)
                            \div 1024) \div 1024
             t_r == u16_from_le_bytes(At(data, 139), At(data, 140))
         IN  Some([manufacturer |-> manufacturer,
                   model |-> model,
                   size_mb |-> size_mb,
                   page_size |-> page_size,
                   block_size |-> pages_per_block,
                   oob_size |-> oob_size,
                   voltage |-> "3.3V",
                   timing |-> [NandTiming_default EXCEPT
                                  !.tR = Min(t_r \div 1000, 255)],
                   bus_width |-> 8,
                   cell_type |-> "SLC"])

\* Parameter pages as a chip sends them: a signature, the manufacturer and
\* model padded with spaces, the geometry, tR; every other byte zero.
Signatures == {ONFI_SIGNATURE, <<79, 78, 70, 0>>, <<0, 0, 0, 0>>, <<255, 255, 255, 255>>}
PageLens == {ONFI_PAGE_LEN - 1, ONFI_PAGE_LEN}
PageSizeField == {0, 2048}
PagesPerBlockField == {0, 64}
BlocksPerLunField == {0, 1024}
LunsField == {0, 1}
ManufacturerText == <<77, 73, 67, 82, 79, 78, 32, 32, 32, 32, 32, 32>>
ModelText == <<77, 84, 50, 57, 70, 49, 71, 48, 56>>

ParameterPage(len, sig, page_size, pages_per_block, blocks_per_lun, luns) ==
    [k \in 1..len |->
        LET i == k - 1
        IN  CASE i < 4 -> sig[i + 1]
              [] i >= 32 /\ i < 44 -> ManufacturerText[i - 31]
              [] i >= 44 /\ i < 64 ->
                    IF i - 43 <= Len(ModelText) THEN ModelText[i - 43] ELSE 32
              [] i >= 80 /\ i < 84 -> u32_to_le_bytes(page_size)[i - 79]
              [] i >= 84 /\ i < 86 -> u16_to_le_bytes(64)[i - 83]
              [] i >= 92 /\ i < 96 -> u32_to_le_bytes(pages_per_block)[i - 91]
              [] i >= 96 /\ i < 100 -> u32_to_le_bytes(blocks_per_lun)[i - 95]
              [] i = 100 -> luns
              [] i >= 139 /\ i < 141 -> u16_to_le_bytes(25000)[i - 138]
              [] OTHER -> 0]

OnfiIdle == onfi = [data |-> <<>>, stage |-> "idle", info |-> None]

\* parse_onfi_parameter_page(&data)
ParseOnfi ==
    /\ onfi.stage = "read"
    /\ onfi' = [onfi EXCEPT !.stage = "parsed",
                            !.info = parse_onfi_parameter_page(onfi.data)]
    /\ UNCHANGED <<gf, packetVars, progVars, cloneVars, usbVars, nandVars, trackVars, lateVars>>

NextOnfi == ParseOnfi

(***************************************************************************)
(* Galois field GF(2^13) of the BCH codec (core/src/ecc.rs)                *)
(***************************************************************************)
GF_M == 13
U16 == 65536

RECURSIVE Pow2(_)
Pow2(n) == IF n = 0 THEN 1 ELSE 2 * Pow2(n - 1)

GF_N == Pow2(GF_M) - 1

\* x^13 + 1, which is not primitive.
GF_POLY_REDUCIBLE == Pow2(GF_M) + 1

\* x^13 + x^4 + x^3 + x + 1
GF_PRIM_POLY == 8219

\* a ^ b on non-negative integers.
RECURSIVE Xor(_, _)
Xor(a, b) ==
    IF a = 0 THEN b
    ELSE IF b = 0 THEN a
    ELSE (((a % 2) + (b % 2)) % 2) + 2 * Xor(a \div 2, b \div 2)

\* The value returned where the source indexes a table with the log of an
\* element that has none (-1 as usize).  No table built by new() has such an
\* element among 1..GF_N.
GF_NO_ELEMENT == -1

\* GaloisField::new before its loop: vec![0u16; GF_N + 1], vec![-1i16; GF_N + 1]
GaloisField_start ==
    [stage |-> "new", i |-> 0, x |-> 1,
     exp_table |-> [k \in 0..GF_N |-> 0],
     log_table |-> [k \in 0..GF_N |-> -1],
     query |-> None]

\* One round of the loop of GaloisField::new.
new_round(g) ==
    LET shifted == g.x * 2
        next == IF (shifted \div Pow2(GF_M)) % 2 # 0
                THEN Xor(shifted, GF_PRIM_POLY)
                ELSE shifted
    IN  [g EXCEPT !.exp_table[g.i] = g.x % U16,
                  !.log_table[g.x] = g.i,
                  !.x = next,
                  !.i = g.i + 1]

\* After the loop: exp_table[GF_N] = exp_table[0].
new_finish(g) ==
    [g EXCEPT !.exp_table[GF_N] = g.exp_table[0], !.stage = "built"]

mul(g, a, b) ==
    IF a = 0 \/ b = 0
    THEN 0
    ELSE LET log_a == g.log_table[a]
             log_b == g.log_table[b]
         IN  IF log_a < 0 \/ log_b < 0
             THEN GF_NO_ELEMENT
             ELSE g.exp_table[(log_a + log_b) % GF_N]

\* div(a, b) for b # 0; the source panics on b = 0.
div(g, a, b) ==
    IF a = 0
    THEN 0
    ELSE LET log_a == g.log_table[a]
             log_b == g.log_table[b]
         IN  IF log_a < 0 \/ log_b < 0
             THEN GF_NO_ELEMENT
             ELSE g.exp_table[(log_a + GF_N - log_b) % GF_N]

alpha(g, i) == g.exp_table[i % GF_N]

\* The field elements and exponents queried: the smallest and the largest, and
\* some in between.
MaxGfSample == 3
GfSamples ==
    (1..MaxGfSample) \cup ((GF_N - MaxGfSample + 1)..GF_N) \cup {100, Pow2(GF_M - 1)}
AlphaExponents == {0, 1, GF_N - 1, GF_N, GF_N + 1}

GfIdle == gf = [stage |-> "idle", i |-> 0, x |-> 0,
                exp_table |-> <<>>, log_table |-> <<>>, query |-> None]

\* GaloisField::new, one round of `for i in 0..GF_N`
GfNewRound ==
    /\ gf.stage = "new"
    /\ gf.i < GF_N
    /\ gf' = new_round(gf)
    /\ UNCHANGED <<onfi, packetVars, progVars, cloneVars, usbVars, nandVars, trackVars, lateVars>>

\* GaloisField::new, after the loop
GfNewFinish ==
    /\ gf.stage = "new"
    /\ gf.i = GF_N
    /\ gf' = new_finish(gf)
    /\ UNCHANGED <<onfi, packetVars, progVars, cloneVars, usbVars, nandVars, trackVars, lateVars>>

\* c = gf.mul(a, b); gf.div(c, b)
GfMulDiv(a, b) ==
    /\ gf.stage = "built"
    /\ LET c == mul(gf, a, b)
       IN  gf' = [gf EXCEPT !.stage = "queried",
                            !.query = Some([op |-> "mul_div", a |-> a, b |-> b,
                                            product |-> c,
                                            quotient |-> div(gf, c, b)])]
    /\ UNCHANGED <<onfi, packetVars, progVars, cloneVars, usbVars, nandVars, trackVars, lateVars>>

\* gf.alpha(i)
GfAlpha(i) ==
    /\ gf.stage = "built"
    /\ gf' = [gf EXCEPT !.stage = "queried",
                        !.query = Some([op |-> "alpha", i |-> i,
                                        value |-> alpha(gf, i)])]
    /\ UNCHANGED <<onfi, packetVars, progVars, cloneVars, usbVars, nandVars, trackVars, lateVars>>

NextGf ==
    \/ GfNewRound
    \/ GfNewFinish
    \/ \E a \in GfSamples, b \in GfSamples : GfMulDiv(a, b)
    \/ \E i \in AlphaExponents : GfAlpha(i)

(***************************************************************************)
(* Hamming codec for one sector (core/src/ecc.rs)                          *)
(***************************************************************************)
SECTOR_SIZE == 512

\* a & b on non-negative integers.
RECURSIVE And(_, _)
And(a, b) ==
    IF a = 0 \/ b = 0 THEN 0
    ELSE ((a % 2) * (b % 2)) + 2 * And(a \div 2, b \div 2)

\* a | b on non-negative integers.
Or(a, b) == Xor(Xor(a, b), And(a, b))

\* u8::count_ones and its sum over a vector of bytes
RECURSIVE count_ones(_)
count_ones(b) == IF b = 0 THEN 0 ELSE (b % 2) + count_ones(b \div 2)

RECURSIVE SumOnes(_)
SumOnes(bytes) ==
    IF bytes = <<>> THEN 0 ELSE count_ones(Head(bytes)) + SumOnes(Tail(bytes))

NonZero(x) == IF x # 0 THEN 1 ELSE 0

\* HammingEcc::calculate, what the byte at index i adds to the parities: cp is
\* the column parity, lp the line parity lp[0] (lp[1] is never read).
calculate_byte(byte, i) ==
    [cp |-> <<NonZero(And(byte, 85)), NonZero(And(byte, 170)),
              NonZero(And(byte, 51)), NonZero(And(byte, 204)),
              NonZero(And(byte, 15)), NonZero(And(byte, 240))>>,
     lp |-> IF count_ones(byte) % 2 # 0 THEN i ELSE 0]

\* HammingEcc::calculate, the loop over the bytes lo..hi-1.  Every parity is
\* an exclusive or over the bytes, so the loop is evaluated by halves.
RECURSIVE calculate_range(_, _, _)
calculate_range(data, lo, hi) ==
    IF hi - lo = 1
    THEN calculate_byte(data[lo], lo)
    ELSE LET mid == (lo + hi) \div 2
             a == calculate_range(data, lo, mid)
             b == calculate_range(data, mid, hi)
         IN  [cp |-> [k \in 1..6 |-> Xor(a.cp[k], b.cp[k])],
              lp |-> Xor(a.lp, b.lp)]

\* HammingEcc::calculate for a 512-byte sector: four code bytes.
HammingEcc_calculate(data) ==
    LET acc == calculate_range(data, 0, SECTOR_SIZE)
    IN  << acc.cp[1] + 2 * acc.cp[2] + 4 * acc.cp[3] + 8 * acc.cp[4]
              + 16 * acc.cp[5] + 32 * acc.cp[6],
           acc.lp % BYTE,
           (acc.lp \div BYTE) % BYTE,
           (acc.lp \div (BYTE * BYTE)) % BYTE >>

is_correctable(xor_result) == SumOnes(xor_result) >= 11

get_error_position(xor_result) == Or(xor_result[2], xor_result[3] * BYTE)

\* HammingEcc::correct: the result and the sector as it leaves it.
HammingEcc_correct(data, stored_ecc) ==
    IF DOMAIN data # 0..(SECTOR_SIZE - 1)
    THEN [res |-> Err("InvalidInput"), data |-> data]
    ELSE LET calculated_ecc == HammingEcc_calculate(data)
             xor_result == [k \in 1..Min(Len(stored_ecc), Len(calculated_ecc)) |->
                               Xor(stored_ecc[k], calculated_ecc[k])]
             bit_errors == SumOnes(xor_result)
         IN  IF bit_errors = 0 THEN [res |-> Ok(0), data |-> data]
             ELSE IF bit_errors = 1 THEN [res |-> Ok(0), data |-> data]
             ELSE IF is_correctable(xor_result)
             THEN LET byte_pos == get_error_position(xor_result)
                      bit_pos == xor_result[1] % 8
                  IN  IF byte_pos < SECTOR_SIZE
                      THEN [res |-> Ok(1),
                            data |-> [data EXCEPT
                                         ![byte_pos] = Xor(@, Pow2(bit_pos))]]
                      ELSE [res |-> Err("UncorrectableError"), data |-> data]
             ELSE [res |-> Err("UncorrectableError"), data |-> data]

\* The sectors encoded: one byte value throughout but for the byte at `at`.
HammingFills == {0, 255, 165}
Sector(fill, at, byte) ==
    [i \in 0..(SECTOR_SIZE - 1) |-> IF i = at THEN byte ELSE fill]

\* The bytes a bit is flipped in: the first and last MaxFlipEdge + 1 bytes of
\* the sector and one in the middle.
MaxFlipEdge == 1
FlipBytes ==
    (0..MaxFlipEdge) \cup ((SECTOR_SIZE - 1 - MaxFlipEdge)..(SECTOR_SIZE - 1))
        \cup {SECTOR_SIZE \div 2}

HammingIdle ==
    hamming = [stage |-> "idle", original |-> <<>>, data |-> <<>>, ecc |-> <<>>,
               flipped |-> None, res |-> None]

\* let ecc_bytes = ecc.calculate(&data)
HammingCalculate ==
    /\ hamming.stage = "sector"
    /\ hamming' = [hamming EXCEPT !.stage = "encoded",
                                  !.ecc = HammingEcc_calculate(hamming.data)]
    /\ UNCHANGED <<bch, dumps, spi, unpacker, packetVars, progVars, cloneVars,
                   usbVars, nandVars, trackVars, pureVars>>

\* corrupted[byte] ^= 1 << bit
HammingFlip(byte, bit) ==
    /\ hamming.stage = "encoded"
    /\ hamming' = [hamming EXCEPT !.stage = "corrupted",
                                  !.data[byte] = Xor(@, Pow2(bit)),
                                  !.flipped = Some([byte |-> byte, bit |-> bit])]
    /\ UNCHANGED <<bch, dumps, spi, unpacker, packetVars, progVars, cloneVars,
                   usbVars, nandVars, trackVars, pureVars>>

\* The sector record s after correct returned r.res and left the sector r.data.
Corrected(s, r) ==
    [s EXCEPT !.stage = "corrected", !.data = r.data, !.res = Some(r.res)]

\* ecc.correct(&mut data, &ecc_bytes)
HammingCorrect ==
    /\ hamming.stage \in {"encoded", "corrupted"}
    /\ hamming' = Corrected(hamming, HammingEcc_correct(hamming.data, hamming.ecc))
    /\ UNCHANGED <<bch, dumps, spi, unpacker, packetVars, progVars, cloneVars,
                   usbVars, nandVars, trackVars, pureVars>>

NextHamming ==
    \/ HammingCalculate
    \/ \E byte \in FlipBytes, bit \in 0..7 : HammingFlip(byte, bit)
    \/ HammingCorrect

(***************************************************************************)
(* BCH codec for one sector (core/src/ecc.rs)                              *)
(***************************************************************************)
\* Vec<T> of length n whose element at index j is F(j), as a sequence: the
\* element at index j of a vector v is Idx(v, j).
VecOf(n, F(_)) == [k \in 1..n |-> F(k - 1)] \o <<>>
Idx(v, j) == v[j + 1]
Zeros(n) == VecOf(n, LAMBDA j : 0)

\* The loop of GaloisField::new, `for i in 0..GF_N`: up to n rounds from g,
\* the second half of the rounds run on what the first half left.
RECURSIVE new_rounds(_, _)
new_rounds(g, n) ==
    IF g.i >= GF_N \/ n = 0 THEN g
    ELSE IF n = 1 THEN new_round(g)
    ELSE new_rounds(new_rounds(g, n \div 2), n - (n \div 2))

\* GaloisField::new from the freshly allocated tables.
GaloisField_new(start) == new_finish(new_rounds(start, GF_N))

\* BchEcc::compute_generator, the rounds i..2t of `for i in 1..=(2 * t)`
RECURSIVE compute_generator_from(_, _, _, _)
compute_generator_from(g, t, i, poly) ==
    IF Len(poly) = 0 \/ i > 2 * t
    THEN poly
    ELSE LET alpha_i == alpha(g, i)
             new_g == VecOf(Len(poly) + 1, LAMBDA j :
                          Xor(IF j >= 1 THEN Idx(poly, j - 1) ELSE 0,
                              IF j < Len(poly)
                              THEN mul(g, Idx(poly, j), alpha_i)
                              ELSE 0))
         IN  compute_generator_from(g, t, i + 1, new_g)

compute_generator(g, t) == compute_generator_from(g, t, 1, <<1>>)

\* BchEcc::new(sector_size, t)
BchEcc_new(g, sector_size, t) ==
    [sector_size |-> sector_size, t |-> t, gf |-> g,
     generator |-> compute_generator(g, t)]

gf_mul_bit(a, b) == IF b # 0 THEN a ELSE 0

\* Bit p of a sector, most significant bit of each byte first:
\* `for &byte in data { for bit_idx in (0..8).rev() { (byte >> bit_idx) & 1`
StreamBit(bytes, p) == (bytes[p \div 8] \div Pow2(7 - (p % 8))) % 2

\* BchEcc::calculate, one bit shifted into the remainder.
calculate_bit(codec, remainder, bit) ==
    LET feedback == Xor(Idx(remainder, Len(remainder) - 1), bit)
    IN  VecOf(Len(remainder), LAMBDA i :
            IF i = 0
            THEN gf_mul_bit(Idx(codec.generator, 0), feedback)
            ELSE Xor(Idx(remainder, i - 1),
                     gf_mul_bit(Idx(codec.generator, i), feedback)))

\* BchEcc::calculate, the bits lo..hi-1 of the sector shifted in one after
\* the other (the second half on what the first half left).  An empty
\* remainder stays empty.
RECURSIVE calculate_bits(_, _, _, _, _)
calculate_bits(codec, data, lo, hi, remainder) ==
    IF Len(remainder) = 0
    THEN remainder
    ELSE IF hi - lo = 1
    THEN calculate_bit(codec, remainder, StreamBit(data, lo))
    ELSE LET mid == (lo + hi) \div 2
         IN  calculate_bits(codec, data, mid, hi,
                            calculate_bits(codec, data, lo, mid, remainder))

\* BchEcc::calculate
BchEcc_calculate(codec, data) ==
    LET n_ecc_bits == Len(codec.generator) - 1
        n_ecc_bytes == (n_ecc_bits + 7) \div 8
        remainder == calculate_bits(codec, data, 0, 8 * Cardinality(DOMAIN data),
                                    Zeros(n_ecc_bits))
        EccBit(i) ==
            IF i < n_ecc_bits /\ Idx(remainder, i) # 0 THEN Pow2(i % 8) ELSE 0
    IN  VecOf(n_ecc_bytes, LAMBDA b :
            EccBit(8 * b) + EccBit(8 * b + 1) + EccBit(8 * b + 2)
                + EccBit(8 * b + 3) + EccBit(8 * b + 4) + EccBit(8 * b + 5)
                + EccBit(8 * b + 6) + EccBit(8 * b + 7))

\* data.iter().chain(ecc.iter())
Chain(data, ecc) ==
    LET len == Cardinality(DOMAIN data)
    IN  VecOf(len + Len(ecc), LAMBDA k :
            IF k < len THEN data[k] ELSE Idx(ecc, k - len))

\* (byte >> bit_idx) & 1 for bit_idx in (0..8).rev(): the bits of a byte,
\* most significant first
Bits(byte) ==
    <<(byte \div 128) % 2, (byte \div 64) % 2, (byte \div 32) % 2,
      (byte \div 16) % 2, (byte \div 8) % 2, (byte \div 4) % 2,
      (byte \div 2) % 2, byte % 2>>

\* calculate_syndromes, the evaluation r(alpha_i) over the bits lo..hi-1 of
\* the received word: acc.syndrome and acc.alpha_power as the loop keeps them
\* (the second half on what the first half left).  Once alpha_power is 0 it
\* stays 0 and the syndrome no longer changes.
RECURSIVE syndrome_bits(_, _, _, _, _, _)
syndrome_bits(g, bits, alpha_i, lo, hi, acc) ==
    IF acc.alpha_power = 0
    THEN acc
    ELSE IF hi - lo = 1
    THEN [syndrome |-> IF bits[lo + 1] # 0
                       THEN Xor(acc.syndrome, acc.alpha_power)
                       ELSE acc.syndrome,
          alpha_power |-> mul(g, acc.alpha_power, alpha_i)]
    ELSE LET mid == (lo + hi) \div 2
         IN  syndrome_bits(g, bits, alpha_i, mid, hi,
                           syndrome_bits(g, bits, alpha_i, lo, mid, acc))

\* The bits of the bytes lo..hi-1 of a vector, in the order the loops read
\* them.
RECURSIVE BitsOf(_, _, _)
BitsOf(bytes, lo, hi) ==
    IF hi = lo THEN <<>>
    ELSE IF hi - lo = 1 THEN Bits(Idx(bytes, lo))
    ELSE LET mid == (lo + hi) \div 2
         IN  BitsOf(bytes, lo, mid) \o BitsOf(bytes, mid, hi)

\* calculate_syndromes for the received bits
syndromes_of(codec, bits) ==
    VecOf(2 * codec.t, LAMBDA i :
        syndrome_bits(codec.gf, bits, alpha(codec.gf, i + 1), 0, Len(bits),
                      [syndrome |-> 0, alpha_power |-> 1]).syndrome)

\* BchEcc::calculate_syndromes
calculate_syndromes(codec, data, ecc) ==
    syndromes_of(codec, BitsOf(Chain(data, ecc), 0,
                               Cardinality(DOMAIN data) + Len(ecc)))

\* berlekamp_massey, the discrepancy: the terms i..l of
\* `for i in 1..=l { if i <= r { delta ^= mul(sigma[i], syndromes[r - i]) } }`
RECURSIVE discrepancy(_, _, _, _, _, _, _)
discrepancy(g, sigma, syndromes, r, l, i, delta) ==
    IF i > l
    THEN delta
    ELSE discrepancy(g, sigma, syndromes, r, l, i + 1,
                     IF i <= r
                     THEN Xor(delta, mul(g, Idx(sigma, i), Idx(syndromes, r - i)))
                     ELSE delta)

\* sigma[i] ^= mul(scale, b[i - m]) for every i whose i - m indexes b
add_scaled(g, sigma, b, scale, m) ==
    VecOf(Len(sigma), LAMBDA i :
        IF i - m >= 0 /\ i - m < Len(b)
        THEN Xor(Idx(sigma, i), mul(g, scale, Idx(b, i - m)))
        ELSE Idx(sigma, i))

\* berlekamp_massey, the rounds r..n-1 of `for r in 0..n`
RECURSIVE berlekamp_massey_from(_, _, _, _)
berlekamp_massey_from(g, syndromes, r, s) ==
    IF s.m < 1 \/ r = Len(syndromes)
    THEN s
    ELSE LET delta == discrepancy(g, s.sigma, syndromes, r, s.l, 1,
                                  Idx(syndromes, r))
         IN  berlekamp_massey_from(g, syndromes, r + 1,
                IF delta = 0
                THEN [s EXCEPT !.m = s.m + 1]
                ELSE IF 2 * s.l <= r
                THEN [sigma |-> add_scaled(g, s.sigma, s.b,
                                           div(g, delta, s.delta_b), s.m),
                      b |-> s.sigma,
                      l |-> r + 1 - s.l,
                      m |-> 1,
                      delta_b |-> delta]
                ELSE [s EXCEPT !.sigma = add_scaled(g, s.sigma, s.b,
                                                    div(g, delta, s.delta_b), s.m),
                               !.m = s.m + 1])

\* BchEcc::berlekamp_massey: sigma truncated to l + 1 coefficients
berlekamp_massey(codec, syndromes) ==
    LET n == Len(syndromes)
        one == VecOf(n + 1, LAMBDA k : IF k = 0 THEN 1 ELSE 0)
        s == berlekamp_massey_from(codec.gf, syndromes, 0,
                 [sigma |-> one, b |-> one, l |-> 0, m |-> 1, delta_b |-> 1])
    IN  SubSeq(s.sigma, 1, Min(s.l + 1, n + 1))

\* chien_search, sigma evaluated at alpha_inv: the terms k.. of
\* `for &coef in sigma`
RECURSIVE evaluate(_, _, _, _, _, _)
evaluate(g, sigma, alpha_inv, k, result, alpha_power) ==
    IF k = Len(sigma)
    THEN result
    ELSE evaluate(g, sigma, alpha_inv, k + 1,
                  Xor(result, mul(g, Idx(sigma, k), alpha_power)),
                  mul(g, alpha_power, alpha_inv))

\* chien_search, the positions pushed for i in lo..hi-1, in the order pushed
RECURSIVE chien_range(_, _, _, _, _)
chien_range(g, sigma, n_bits, lo, hi) ==
    IF hi - lo = 1
    THEN IF evaluate(g, sigma, alpha(g, GF_N - (lo % GF_N)), 0, 0, 1) = 0
         THEN <<n_bits - 1 - lo>>
         ELSE <<>>
    ELSE LET mid == (lo + hi) \div 2
         IN  chien_range(g, sigma, n_bits, lo, mid)
                 \o chien_range(g, sigma, n_bits, mid, hi)

\* BchEcc::chien_search
chien_search(codec, sigma, data_len) ==
    chien_range(codec.gf, sigma, data_len * 8, 0, data_len * 8)

\* BchEcc::correct, `for pos in positions`: the sector and the count
RECURSIVE correct_positions(_, _, _)
correct_positions(data, positions, corrected) ==
    IF positions = <<>>
    THEN [res |-> Ok(corrected), data |-> data]
    ELSE LET pos == Head(positions)
             byte_idx == pos \div 8
             bit_idx == pos % 8
         IN  IF byte_idx < Cardinality(DOMAIN data)
             THEN correct_positions(
                      [data EXCEPT ![byte_idx] = Xor(@, Pow2(bit_idx))],
                      Tail(positions), corrected + 1)
             ELSE correct_positions(data, Tail(positions), corrected)

\* BchEcc::correct: the result and the sector as it leaves it.
BchEcc_correct(codec, data, stored_ecc) ==
    IF Cardinality(DOMAIN data) # codec.sector_size
    THEN [res |-> Err("InvalidInput"), data |-> data]
    ELSE LET syndromes == calculate_syndromes(codec, data, stored_ecc)
         IN  IF \A i \in 1..Len(syndromes) : syndromes[i] = 0
             THEN [res |-> Ok(0), data |-> data]
             ELSE LET sigma == berlekamp_massey(codec, syndromes)
                  IN  IF Len(sigma) - 1 > codec.t
                      THEN [res |-> Err("UncorrectableError"), data |-> data]
                      ELSE LET positions ==
                                   chien_search(codec, sigma,
                                                Cardinality(DOMAIN data))
                           IN  IF Len(positions) # Len(sigma) - 1
                               THEN [res |-> Err("UncorrectableError"),
                                     data |-> data]
                               ELSE correct_positions(data, positions, 0)

\* The codecs, sectors and corruptions tried: t in {4, 8}; sectors of zero
\* bytes but for the last byte; up to MaxBchFlips flipped bits, of the first
\* byte, of a byte in the middle and of the last byte.
BchStrengths == {4, 8}
BchLastBytes == {0, 1, 128}
MaxBchFlips == 2
BchFlipBits ==
    {[byte |-> 0, bit |-> 7], [byte |-> 0, bit |-> 0],
     [byte |-> SECTOR_SIZE \div 2, bit |-> 3],
     [byte |-> SECTOR_SIZE - 1, bit |-> 0]}

BchIdle ==
    bch = [stage |-> "idle", codec |-> None, original |-> <<>>, data |-> <<>>,
           ecc |-> <<>>, flipped |-> {}, res |-> None]

\* let ecc_bytes = bch.calculate(&data)
BchCalculate ==
    /\ bch.stage = "sector"
    /\ bch' = [bch EXCEPT !.stage = "encoded",
                          !.ecc = BchEcc_calculate(bch.codec, bch.data)]
    /\ UNCHANGED <<hamming, dumps, spi, unpacker, packetVars, progVars, cloneVars,
                   usbVars, nandVars, trackVars, pureVars>>

\* corrupted[byte] ^= 1 << bit, for a bit not flipped before
BchFlip(f) ==
    /\ bch.stage \in {"encoded", "corrupted"}
    /\ f \notin bch.flipped
    /\ Cardinality(bch.flipped) < Min(bch.codec.t, MaxBchFlips)
    /\ bch' = [bch EXCEPT !.stage = "corrupted",
                          !.data[f.byte] = Xor(@, Pow2(f.bit)),
                          !.flipped = @ \cup {f}]
    /\ UNCHANGED <<hamming, dumps, spi, unpacker, packetVars, progVars, cloneVars,
                   usbVars, nandVars, trackVars, pureVars>>

\* bch.correct(&mut data, &ecc_bytes)
BchCorrect ==
    /\ bch.stage \in {"encoded", "corrupted"}
    /\ bch' = Corrected(bch, BchEcc_correct(bch.codec, bch.data, bch.ecc))
    /\ UNCHANGED <<hamming, dumps, spi, unpacker, packetVars, progVars, cloneVars,
                   usbVars, nandVars, trackVars, pureVars>>

NextBch ==
    \/ BchCalculate
    \/ \E f \in BchFlipBits : BchFlip(f)
    \/ BchCorrect

(***************************************************************************)
(* Dump comparison (core/src/ai.rs)                                        *)
(***************************************************************************)
ERASED_BYTE == 255
BIT_FLIP_LIMIT == 10

\* AiAnalyzer::new(page_size, pages_per_block), the fields compare_dumps reads
AiAnalyzer_new(page_size, pages_per_block) ==
    [page_size |-> page_size, block_size |-> pages_per_block]

\* &dump[start..end]
Range(dump, start, end) == SubSeq(dump, start + 1, end)

\* page1.iter().zip(page2.iter()).filter(|(a, b)| a != b).count()
diff_count(page1, page2) ==
    Cardinality({k \in 1..Min(Len(page1), Len(page2)) : page1[k] # page2[k]})

\* compare_dumps, the classification of a differing page
classify(page2, count) ==
    IF \A k \in 1..Len(page2) : page2[k] = ERASED_BYTE THEN "Erased"
    ELSE IF count < BIT_FLIP_LIMIT THEN "BitFlip"
    ELSE "Modified"

\* compare_dumps, the pages page.. of `for page in 0..num_pages`
RECURSIVE compare_pages(_, _, _, _, _, _)
compare_pages(a, dump1, dump2, page, num_pages, acc) ==
    IF page >= num_pages
    THEN acc
    ELSE LET start == page * a.page_size
             end == start + a.page_size
             page1 == Range(dump1, start, end)
             page2 == Range(dump2, start, end)
             count == diff_count(page1, page2)
         IN  compare_pages(a, dump1, dump2, page + 1, num_pages,
                IF page1 # page2
                THEN [changed_pages |-> Append(acc.changed_pages, page),
                      total_differences |-> acc.total_differences + count,
                      modified_regions |->
                          Append(acc.modified_regions,
                                 [offset |-> start,
                                  size |-> a.page_size,
                                  change_type |-> classify(page2, count),
                                  description |-> [page |-> page,
                                                   different |-> count]])]
                ELSE acc)

\* compare_dumps, `for block in 0..(num_pages / pages_per_block)`
RECURSIVE compare_blocks(_, _, _, _, _)
compare_blocks(a, changed_pages, block, num_blocks, changed_blocks) ==
    IF block >= num_blocks
    THEN changed_blocks
    ELSE LET block_start == block * a.block_size
             block_end == block_start + a.block_size
         IN  compare_blocks(a, changed_pages, block + 1, num_blocks,
                IF \E k \in 1..Len(changed_pages) :
                       changed_pages[k] >= block_start /\ changed_pages[k] < block_end
                THEN Append(changed_blocks, block)
                ELSE changed_blocks)

\* AiAnalyzer::compare_dumps for page_size > 0 and block_size > 0 (the source
\* divides by both).  similarity_percent is kept as the pair it is the
\* quotient of.
compare_dumps(a, dump1, dump2) ==
    LET min_len == Min(Len(dump1), Len(dump2))
        max_len == IF Len(dump1) > Len(dump2) THEN Len(dump1) ELSE Len(dump2)
        num_pages == min_len \div a.page_size
        pages == compare_pages(a, dump1, dump2, 0, num_pages,
                     [changed_pages |-> <<>>, total_differences |-> 0,
                      modified_regions |-> <<>>])
    IN  [total_differences |-> pages.total_differences,
         changed_pages |-> pages.changed_pages,
         changed_blocks |-> compare_blocks(a, pages.changed_pages, 0,
                                           num_pages \div a.block_size, <<>>),
         added_regions |-> IF Len(dump2) > Len(dump1)
                           THEN << <<Len(dump1), Len(dump2)>> >>
                           ELSE <<>>,
         removed_regions |-> IF Len(dump1) > Len(dump2)
                             THEN << <<Len(dump2), Len(dump1)>> >>
                             ELSE <<>>,
         modified_regions |-> pages.modified_regions,
         similarity_percent |-> [same_bytes |-> min_len - pages.total_differences,
                                 max_len |-> max_len]]

\* The analyzers and dumps compared: pages of DumpPageSize bytes, two pages to
\* the block; a reference dump of 1..MaxDumpPages pages of one byte value, and
\* a second dump that differs from it in the first `different` bytes of page
\* 0 and is up to MaxDumpTail bytes longer; the two in either order.
DumpPageSize == 12
MaxDumpPages == 2
MaxDumpTail == 1
DumpFills == {0, ERASED_BYTE}
DumpWrites == {1, ERASED_BYTE}
Reference(pages, fill) == [k \in 1..(pages * DumpPageSize) |-> fill]
Changed(pages, fill, different, write, tail) ==
    [k \in 1..(pages * DumpPageSize + tail) |->
        IF k <= different THEN write ELSE fill]

DumpsIdle == dumps = [stage |-> "idle", analyzer |-> None, dump1 |-> <<>>,
                      dump2 |-> <<>>, diff |-> None]

\* analyzer.compare_dumps(&dump1, &dump2)
CompareDumps ==
    /\ dumps.stage = "loaded"
    /\ dumps' = [dumps EXCEPT !.stage = "compared",
                              !.diff = Some(compare_dumps(dumps.analyzer,
                                                          dumps.dump1, dumps.dump2))]
    /\ UNCHANGED <<hamming, bch, spi, unpacker, packetVars, progVars, cloneVars,
                   usbVars, nandVars, trackVars, pureVars>>

NextDumps == CompareDumps

(***************************************************************************)
(* SPI NAND controller of the RP2040 firmware                              *)
(* (firmware/rp2040/src/spi_nand.rs).  spi.bus is the list of chip-select  *)
(* frames the running operation has written, each the bytes sent between   *)
(* cs_low and cs_high; spi.status is the last byte the chip answered to a  *)
(* GET_FEATURE.  The chip's answers are inputs.                            *)
(***************************************************************************)

\* mod commands
GET_FEATURE == 15
WRITE_ENABLE == 6
PROGRAM_LOAD == 2
PROGRAM_EXECUTE == 16
BLOCK_ERASE == 216
\* mod features
STATUS == 192
\* mod status
OIP == 1
E_FAIL == 4
P_FAIL == 8

\* x >> n
Shr(x, n) == x \div Pow2(n)

\* [cmd, (row_addr >> 16) & 0xFF, (row_addr >> 8) & 0xFF, row_addr & 0xFF]
addr_bytes(cmd, row_addr) ==
    <<cmd, And(Shr(row_addr, 16), 255), And(Shr(row_addr, 8), 255),
      And(row_addr, 255)>>

\* write_cmd: cs_low, blocking_write(cmd), cs_high
write_cmd(s, cmd) == [s EXCEPT !.bus = Append(@, cmd)]

\* get_feature: one frame [GET_FEATURE, addr], then the chip's byte is read
get_feature(s, addr, value) ==
    [s EXCEPT !.bus = Append(@, <<GET_FEATURE, addr>>), !.status = value]

read_status(s, value) == get_feature(s, STATUS, value)

\* The status bit an operation tests once wait_ready has returned.
fail_bit(op) == IF op = "erase_block" THEN E_FAIL ELSE P_FAIL

\* One round of wait_ready's loop and, when it returns, the end of the
\* operation that awaited it: `(status & FAIL) == 0`.  A set OIP leaves the
\* operation at its Timer::after(10 us).
wait_ready(s, value) ==
    LET r == read_status(s, value)
    IN  IF And(r.status, OIP) = 0
        THEN [r EXCEPT !.pc = "done",
                       !.res = Some(And(r.status, fail_bit(r.op)) = 0)]
        ELSE [r EXCEPT !.pc = "wait_ready", !.polls = @ + 1]

write_enable(s) == write_cmd(s, <<WRITE_ENABLE>>)

\* program_load: one frame of [PROGRAM_LOAD, col >> 8, col & 0xFF] and the data
program_load(s, col_addr, data) ==
    [s EXCEPT !.bus = Append(@, <<PROGRAM_LOAD, And(Shr(col_addr, 8), 255),
                                   And(col_addr, 255)>> \o data)]

\* program_execute up to its first await
program_execute(s, row_addr, value) ==
    wait_ready(write_cmd(s, addr_bytes(PROGRAM_EXECUTE, row_addr)), value)

\* A write_page that loads and executes without setting the write latch.
write_page_unlatched(s, row_addr, data, value) ==
    program_execute(program_load(s, 0, data), row_addr, value)

\* write_page up to its first await
write_page(s, row_addr, data, value) ==
    program_execute(program_load(write_enable(s), 0, data), row_addr, value)

\* erase_block up to its first await
erase_block(s, row_addr, value) ==
    wait_ready(write_cmd(write_enable(s), addr_bytes(BLOCK_ERASE, row_addr)), value)

\* The rows, page data and status bytes offered: a row above 24 bits, and
\* status bytes with every combination the operations test.
MaxPolls == 2
SpiRows == {0, 66051, 16909060}
SpiData == {<<>>, <<165>>, <<0, 255>>}
SpiStatuses == {0, OIP, E_FAIL, P_FAIL, OIP + E_FAIL + P_FAIL}

\* A call on the controller starts with an empty record of the operation.
Called(op, row_addr, data) ==
    [op |-> op, pc |-> "run", row |-> row_addr, data |-> data, bus |-> <<>>,
     polls |-> 0, status |-> 0, res |-> None]

SpiIdle == spi = [op |-> "none", pc |-> "idle", row |-> 0, data |-> <<>>,
                  bus |-> <<>>, polls |-> 0, status |-> 0, res |-> None]

\* controller.write_page(row_addr, &data), to its return or its first await
SpiWritePage(row_addr, data, value) ==
    /\ spi.pc \in {"idle", "done"}
    /\ spi' = write_page(Called("write_page", row_addr, data), row_addr, data, value)
    /\ UNCHANGED <<hamming, bch, dumps, unpacker, packetVars, progVars, cloneVars,
                   usbVars, nandVars, trackVars, pureVars>>

\* controller.erase_block(row_addr), to its return or its first await
SpiEraseBlock(row_addr, value) ==
    /\ spi.pc \in {"idle", "done"}
    /\ spi' = erase_block(Called("erase_block", row_addr, <<>>), row_addr, value)
    /\ UNCHANGED <<hamming, bch, dumps, unpacker, packetVars, progVars, cloneVars,
                   usbVars, nandVars, trackVars, pureVars>>

\* controller.program_execute(row_addr) called on its own (it is public)
SpiProgramExecute(row_addr, value) ==
    /\ spi.pc \in {"idle", "done"}
    /\ spi' = program_execute(Called("program_execute", row_addr, <<>>), row_addr, value)
    /\ UNCHANGED <<hamming, bch, dumps, unpacker, packetVars, progVars, cloneVars,
                   usbVars, nandVars, trackVars, pureVars>>

\* The timer of wait_ready fires and the loop goes round once more.
SpiPoll(value) ==
    /\ spi.pc = "wait_ready"
    /\ spi.polls <= MaxPolls
    /\ spi' = wait_ready(spi, value)
    /\ UNCHANGED <<hamming, bch, dumps, unpacker, packetVars, progVars, cloneVars,
                   usbVars, nandVars, trackVars, pureVars>>

NextSpi ==
    \/ \E row_addr \in SpiRows, data \in SpiData, value \in SpiStatuses :
          SpiWritePage(row_addr, data, value)
    \/ \E row_addr \in SpiRows, value \in SpiStatuses : SpiEraseBlock(row_addr, value)
    \/ \E row_addr \in SpiRows, value \in SpiStatuses :
          SpiProgramExecute(row_addr, value)
    \/ \E value \in SpiStatuses : SpiPoll(value)

(***************************************************************************)
(* Firmware unpacker (core/src/ai_advanced.rs).  Buffers are sequences of  *)
(* bytes, offsets count from 0.  A section's entropy (an f32) and the      *)
(* warnings derived from it are left out; every other field of             *)
(* ExtractedSection and UnpackResult is kept.  scan always returns Ok and  *)
(* is modelled by the vector it returns.                                   *)
(***************************************************************************)

Max(a, b) == IF a > b THEN a ELSE b

\* FirmwareUnpacker::new()
FirmwareUnpacker_new == [max_depth |-> 5, min_section_size |-> 64, recursive |-> TRUE]

with_max_depth(u, depth) == [u EXCEPT !.max_depth = depth]
with_min_size(u, size) == [u EXCEPT !.min_section_size = size]
with_recursive(u, recursive) == [u EXCEPT !.recursive = recursive]

FirmwareSignature(name, magic, sig_type, compression, archive) ==
    [name |-> name, magic |-> magic, sig_type |-> sig_type,
     compression |-> compression, archive |-> archive]

SQUASHFS_MAGIC == <<104, 115, 113, 115>>

\* get_firmware_signatures()
get_firmware_signatures ==
    << FirmwareSignature("gzip", <<31, 139, 8>>, "compressed", "Gzip", "None"),
       FirmwareSignature("LZMA", <<93, 0, 0>>, "compressed", "Lzma", "None"),
       FirmwareSignature("XZ", <<253, 55, 122, 88, 90, 0>>, "compressed", "Xz", "None"),
       FirmwareSignature("SquashFS", SQUASHFS_MAGIC, "filesystem", "None", "None"),
       FirmwareSignature("SquashFS (BE)", <<115, 113, 115, 104>>, "filesystem", "None", "None"),
       FirmwareSignature("JFFS2", <<133, 25>>, "filesystem", "None", "None"),
       FirmwareSignature("UBIFS", <<49, 24, 16, 6>>, "filesystem", "None", "None"),
       FirmwareSignature("CramFS", <<69, 61, 205, 40>>, "filesystem", "None", "None"),
       FirmwareSignature("U-Boot", <<39, 5, 25, 86>>, "bootloader", "None", "None"),
       FirmwareSignature("Linux kernel", <<31, 139, 8, 0>>, "kernel", "Gzip", "None"),
       FirmwareSignature("CPIO", <<48, 55, 48, 55, 48, 49>>, "archive", "None", "Cpio"),
       FirmwareSignature("TAR", <<117, 115, 116, 97, 114>>, "archive", "None", "Tar"),
       FirmwareSignature("ELF", <<127, 69, 76, 70>>, "executable", "None", "None"),
       FirmwareSignature("Device Tree Blob", <<208, 13, 254, 237>>, "dtb", "None", "None") >>

\* find_signature: the first window of data equal to pattern
find_signature(data, pattern) ==
    IF Len(pattern) = 0 \/ Len(data) < Len(pattern)
    THEN None
    ELSE LET hits == {p \in 0..(Len(data) - Len(pattern)) :
                         SubSeq(data, p + 1, p + Len(pattern)) = pattern}
         IN  IF hits = {}
             THEN None
             ELSE Some(CHOOSE p \in hits : \A q \in hits : p <= q)

\* u64::from_le_bytes of the 8 bytes at data[at..at + 8], as far as it is
\* compared with a buffer length: exact below 2^24, and 2^24 for anything
\* larger (no modelled buffer is that long).
le_u64(data, at) ==
    IF \E k \in 3..7 : data[at + k + 1] # 0
    THEN Pow2(24)
    ELSE data[at + 1] + 256 * data[at + 2] + 65536 * data[at + 3]

\* estimate_section_size
estimate_section_size(data, offset, sig_type) ==
    LET remaining == Len(data) - offset
    IN  IF sig_type = "compressed"
        THEN Min(remaining \div 2, 16 * 1024 * 1024)
        ELSE IF sig_type = "filesystem"
        THEN IF /\ offset + 64 <= Len(data)
                /\ Len(data) > offset + 4
                /\ SubSeq(data, offset + 1, offset + 4) = SQUASHFS_MAGIC
                /\ offset + 48 <= Len(data)
                /\ le_u64(data, offset + 40) > 0
                /\ le_u64(data, offset + 40) <= remaining
             THEN le_u64(data, offset + 40)
             ELSE Max(remaining, 64)
        ELSE Max(Min(remaining, 1024 * 1024), 64)

\* The section scan pushes for a signature found at abs_offset.
ExtractedSection(sig, abs_offset, section_size) ==
    [name |-> sig.name, offset |-> abs_offset, size |-> section_size,
     section_type |-> sig.sig_type, compression |-> sig.compression,
     archive |-> sig.archive, data |-> None, children |-> <<>>]

\* scan's `while offset < data.len()` for one signature: every occurrence of
\* the magic, kept when its estimated size reaches min_section_size.
RECURSIVE scan_signature(_, _, _, _, _)
scan_signature(u, data, sig, offset, sections) ==
    IF offset >= Len(data)
    THEN sections
    ELSE LET pos == find_signature(SubSeq(data, offset + 1, Len(data)), sig.magic)
         IN  IF pos = None
             THEN sections
             ELSE LET abs_offset == offset + pos[1]
                      section_size == estimate_section_size(data, abs_offset, sig.sig_type)
                  IN  scan_signature(u, data, sig, abs_offset + 1,
                         IF section_size >= u.min_section_size
                         THEN Append(sections, ExtractedSection(sig, abs_offset, section_size))
                         ELSE sections)

\* scan's `for sig in &signatures`, from signature i on
RECURSIVE scan_signatures(_, _, _, _)
scan_signatures(u, data, i, sections) ==
    IF i > Len(get_firmware_signatures)
    THEN sections
    ELSE scan_signatures(u, data, i + 1,
            scan_signature(u, data, get_firmware_signatures[i], 0, sections))

\* sections.sort_by_key(|s| s.offset): a stable sort
RECURSIVE sort_by_offset(_)
sort_by_offset(sections) ==
    IF Len(sections) <= 1
    THEN sections
    ELSE LET last == sections[Len(sections)]
             front == sort_by_offset(SubSeq(sections, 1, Len(sections) - 1))
             keep == Cardinality({k \in 1..Len(front) : front[k].offset <= last.offset})
         IN  SubSeq(front, 1, keep) \o <<last>> \o SubSeq(front, keep + 1, Len(front))

scan(u, data) == sort_by_offset(scan_signatures(u, data, 1, <<>>))

\* decompress_gzip, decompress_lzma, decompress_xz (stubs) and the `_` arm of
\* extract_section's match: all return Ok(data.to_vec()).
decompress(compression, data) == Ok(data)

\* A recursion guard that lets the deepest level recurse once more.
may_recurse_inclusive(u, depth) == u.recursive /\ depth <= u.max_depth

\* `if self.recursive && depth < self.max_depth`
may_recurse(u, depth) == u.recursive /\ depth < u.max_depth

\* extract_section: the section with its (decompressed) data and, when the
\* guard allows, the sections scanned in that data, each extracted from the
\* data from its offset to the end at depth + 1.
RECURSIVE extract_section(_, _, _, _)
extract_section(u, data, section, depth) ==
    LET decompressed == decompress(section.compression, data)
        nested == scan(u, decompressed.val)
    IN  IF ~decompressed.ok
        THEN section
        ELSE [section EXCEPT
                !.data = Some(decompressed.val),
                !.children =
                    IF may_recurse(u, depth)
                    THEN [i \in 1..Len(nested) |->
                            extract_section(u,
                                SubSeq(decompressed.val, nested[i].offset + 1,
                                       Len(decompressed.val)),
                                nested[i], depth + 1)] \o <<>>
                    ELSE <<>>]

RECURSIVE extracted_size(_)
extracted_size(sections) ==
    IF sections = <<>> THEN 0 ELSE Head(sections).size + extracted_size(Tail(sections))

\* unpack: every scanned section extracted at depth 0 from its own bytes
unpack(u, data) ==
    LET sections == scan(u, data)
        extracted_sections ==
            [i \in 1..Len(sections) |->
                extract_section(u,
                    SubSeq(data, sections[i].offset + 1,
                           Min(sections[i].offset + sections[i].size, Len(data))),
                    sections[i], 0)] \o <<>>
    IN  Ok([total_sections |-> Len(extracted_sections),
            sections |-> extracted_sections,
            max_depth |-> u.max_depth,
            extracted_size |-> extracted_size(extracted_sections)])

\* The unpackers built and the buffers unpacked: no signature, one and two
\* JFFS2 nodes, a gzip header (also a kernel signature), an ELF header behind
\* a byte, and a 64-byte SquashFS superblock whose size field says 10.
MaxDepth == 2
UnpackMinSizes == {0, 4, 64}
SquashFsImage ==
    [k \in 1..64 |-> IF k <= 4 THEN SQUASHFS_MAGIC[k] ELSE IF k = 41 THEN 10 ELSE 0]
UnpackInputs ==
    { <<>>, <<0, 1, 2>>, <<133, 25>>, <<133, 25, 133, 25>>,
      <<31, 139, 8, 0, 0, 0>>, <<0, 127, 69, 76, 70>>, SquashFsImage }

UnpackerIdle == unpacker = [stage |-> "idle", u |-> FirmwareUnpacker_new,
                            data |-> <<>>, result |-> None]

\* .with_max_depth(depth)
WithMaxDepth(depth) ==
    /\ unpacker.stage = "builder"
    /\ unpacker' = [unpacker EXCEPT !.u = with_max_depth(@, depth)]
    /\ UNCHANGED <<hamming, bch, dumps, spi, packetVars, progVars, cloneVars,
                   usbVars, nandVars, trackVars, pureVars>>

\* .with_min_size(size)
WithMinSize(size) ==
    /\ unpacker.stage = "builder"
    /\ unpacker' = [unpacker EXCEPT !.u = with_min_size(@, size)]
    /\ UNCHANGED <<hamming, bch, dumps, spi, packetVars, progVars, cloneVars,
                   usbVars, nandVars, trackVars, pureVars>>

\* .with_recursive(recursive)
WithRecursive(recursive) ==
    /\ unpacker.stage = "builder"
    /\ unpacker' = [unpacker EXCEPT !.u = with_recursive(@, recursive)]
    /\ UNCHANGED <<hamming, bch, dumps, spi, packetVars, progVars, cloneVars,
                   usbVars, nandVars, trackVars, pureVars>>

\* unpacker.unpack(&data)
Unpack(data) ==
    /\ unpacker.stage = "builder"
    /\ unpacker' = [unpacker EXCEPT !.stage = "unpacked", !.data = data,
                                    !.result = Some(unpack(unpacker.u, data))]
    /\ UNCHANGED <<hamming, bch, dumps, spi, packetVars, progVars, cloneVars,
                   usbVars, nandVars, trackVars, pureVars>>

NextUnpack ==
    \/ \E depth \in 0..MaxDepth : WithMaxDepth(depth)
    \/ \E size \in UnpackMinSizes : WithMinSize(size)
    \/ \E recursive \in BOOLEAN : WithRecursive(recursive)
    \/ \E data \in UnpackInputs : Unpack(data)

LateIdle == HammingIdle /\ BchIdle /\ DumpsIdle /\ SpiIdle /\ UnpackerIdle

ExtIdle == UsbIdle /\ NandIdle /\ TrackIdle /\ OnfiIdle /\ GfIdle /\ LateIdle

(***************************************************************************)
(* Specifications                                                          *)
(***************************************************************************)

\* One exchange: either the host holds a request (cmd, args) to send, or a
\* buffer that no to_bytes produced has arrived from the transport.
InitPacket ==
    /\ ProgIdle
    /\ CloneIdle
    /\ ExtIdle
    /\ packet = None
    /\ parsed = None
    /\ \/ /\ \E cmd \in Command, len \in ArgLens, seed \in ByteSeeds :
                 req = Some([cmd |-> cmd, args |-> ArgSlice(len, seed)])
          /\ wire = <<>>
          /\ pstage = "request"
       \/ /\ req = None
          /\ \E len \in RawLens, first \in 0..(BYTE - 1) : wire = RawBuffer(len, first)
          /\ pstage = "encoded"
SpecPacket == InitPacket /\ [][NextPacket]_vars

\* WearLevelingManager::new(total_blocks, max_erase_cycles)
InitWear ==
    /\ PacketIdle
    /\ CloneIdle
    /\ ExtIdle
    /\ bbt = BadBlockTable_new(0, 0)
    /\ \E max \in 1..MaxCycles :
          wear_manager = WearLevelingManager_new(TotalBlocks, max)
    /\ options = ProgramOptions_default
    /\ ret = NoCall
    /\ erase_calls = <<>>
SpecWear == InitWear /\ [][NextWear]_vars

\* ChipProgrammer::new(page_size, pages_per_block, total_blocks, oob_size,
\* max_erase_cycles)
Init ==
    /\ PacketIdle
    /\ CloneIdle
    /\ ExtIdle
    /\ bbt = BadBlockTable_new(TotalBlocks, SPARE_PERCENT)
    /\ wear_manager = WearLevelingManager_new(TotalBlocks, MaxCycles)
    /\ options = ProgramOptions_default
    /\ ret = NoCall
    /\ erase_calls = <<>>
Next == NextProg
Spec == Init /\ [][Next]_vars

InitClone == PacketIdle /\ ProgIdle /\ CloneIdle /\ ExtIdle
SpecClone == InitClone /\ [][NextClone]_vars

\* The host application starts with no device connected; the firmware waits
\* for a packet.
InitUsb == PacketIdle /\ ProgIdle /\ CloneIdle /\ ExtIdle
SpecUsb == InitUsb /\ [][NextUsb]_vars

\* The NAND controllers after new(): no operation started.
InitNand == PacketIdle /\ ProgIdle /\ CloneIdle /\ ExtIdle
SpecNand == InitNand /\ [][NextNand]_vars

\* ChangeTracker::new(total_blocks)
InitTrack ==
    /\ PacketIdle
    /\ ProgIdle
    /\ CloneIdle
    /\ LateIdle
    /\ UsbIdle
    /\ NandIdle
    /\ OnfiIdle
    /\ GfIdle
    /\ tracker = ChangeTracker_new(MaxTrackBlock + 1)
    /\ marked = <<>>
SpecTrack == InitTrack /\ [][NextTrack]_vars

\* A parameter page has been read from the chip.
InitOnfi ==
    /\ PacketIdle
    /\ ProgIdle
    /\ CloneIdle
    /\ LateIdle
    /\ UsbIdle
    /\ NandIdle
    /\ TrackIdle
    /\ GfIdle
    /\ \E len \in PageLens, sig \in Signatures, page_size \in PageSizeField,
          pages_per_block \in PagesPerBlockField,
          blocks_per_lun \in BlocksPerLunField, luns \in LunsField :
          onfi = [data |-> ParameterPage(len, sig, page_size, pages_per_block,
                                         blocks_per_lun, luns),
                  stage |-> "read",
                  info |-> None]
SpecOnfi == InitOnfi /\ [][NextOnfi]_vars

\* GaloisField::new() has allocated its tables.
InitGf ==
    /\ PacketIdle
    /\ ProgIdle
    /\ CloneIdle
    /\ LateIdle
    /\ UsbIdle
    /\ NandIdle
    /\ TrackIdle
    /\ OnfiIdle
    /\ gf = GaloisField_start
SpecGf == InitGf /\ [][NextGf]_vars

\* A sector has been read into memory; HammingEcc::new(512).
InitHamming ==
    /\ PacketIdle
    /\ ProgIdle
    /\ CloneIdle
    /\ UsbIdle
    /\ NandIdle
    /\ TrackIdle
    /\ OnfiIdle
    /\ GfIdle
    /\ BchIdle
    /\ DumpsIdle
    /\ SpiIdle
    /\ UnpackerIdle
    /\ \E fill \in HammingFills :
          hamming = [stage |-> "sector", original |-> Sector(fill, 0, fill),
                     data |-> Sector(fill, 0, fill), ecc |-> <<>>,
                     flipped |-> None, res |-> None]
SpecHamming == InitHamming /\ [][NextHamming]_vars

\* BchEcc::new(512, t) and a sector read into memory.
InitBch ==
    /\ PacketIdle
    /\ ProgIdle
    /\ CloneIdle
    /\ UsbIdle
    /\ NandIdle
    /\ TrackIdle
    /\ OnfiIdle
    /\ GfIdle
    /\ HammingIdle
    /\ DumpsIdle
    /\ SpiIdle
    /\ UnpackerIdle
    /\ LET g == GaloisField_new(GaloisField_start)
       IN  \E t \in BchStrengths, last \in BchLastBytes :
              bch = [stage |-> "sector",
                     codec |-> BchEcc_new(g, SECTOR_SIZE, t),
                     original |-> Sector(0, SECTOR_SIZE - 1, last),
                     data |-> Sector(0, SECTOR_SIZE - 1, last),
                     ecc |-> <<>>, flipped |-> {}, res |-> None]
SpecBch == InitBch /\ [][NextBch]_vars

\* AiAnalyzer::new(page_size, pages_per_block) and two dumps loaded.
InitDumps ==
    /\ PacketIdle
    /\ ProgIdle
    /\ CloneIdle
    /\ UsbIdle
    /\ NandIdle
    /\ TrackIdle
    /\ OnfiIdle
    /\ GfIdle
    /\ HammingIdle
    /\ BchIdle
    /\ SpiIdle
    /\ UnpackerIdle
    /\ \E pages \in 1..MaxDumpPages, fill \in DumpFills,
          different \in 0..DumpPageSize, write \in DumpWrites,
          tail \in 0..MaxDumpTail, swap \in BOOLEAN :
          LET reference == Reference(pages, fill)
              changed == Changed(pages, fill, different, write, tail)
          IN  dumps = [stage |-> "loaded",
                       analyzer |-> AiAnalyzer_new(DumpPageSize, 2),
                       dump1 |-> IF swap THEN changed ELSE reference,
                       dump2 |-> IF swap THEN reference ELSE changed,
                       diff |-> None]
SpecDumps == InitDumps /\ [][NextDumps]_vars

\* SpiNandController::new(spi, cs): nothing sent yet.
InitSpi ==
    /\ PacketIdle
    /\ ProgIdle
    /\ CloneIdle
    /\ ExtIdle
SpecSpi == InitSpi /\ [][NextSpi]_vars

\* FirmwareUnpacker::new(), before the builder calls.
InitUnpack ==
    /\ PacketIdle
    /\ ProgIdle
    /\ CloneIdle
    /\ UsbIdle
    /\ NandIdle
    /\ TrackIdle
    /\ OnfiIdle
    /\ GfIdle
    /\ HammingIdle
    /\ BchIdle
    /\ DumpsIdle
    /\ SpiIdle
    /\ unpacker = [stage |-> "builder", u |-> FirmwareUnpacker_new,
                   data |-> <<>>, result |-> None]
SpecUnpack == InitUnpack /\ [][NextUnpack]_vars

(***************************************************************************)
(* Claims                                                                  *)
(***************************************************************************)

\* The 63-byte argument region the claim expects for an argument slice a:
\* a truncated or zero-padded to 63 bytes.
TruncatedOrPadded(a) == [i \in 1..63 |-> IF i <= Len(a) THEN a[i] ELSE 0]

\* C1: wire round-trip is identity. For every command c and argument slice a,
\* to_bytes yields exactly 64 bytes with the command byte first, and
\* from_bytes(new(c, a).to_bytes()) is a packet with command c whose argument
\* region is a truncated or zero-padded to 63 bytes.
C1_WireRoundTrip ==
    req # None =>
        /\ pstage \in {"encoded", "decoded"} =>
               /\ Len(wire) = 64
               /\ wire[1] = CommandCode(req[1].cmd)
        /\ pstage = "decoded" =>
               parsed = Some([cmd |-> req[1].cmd,
                              args |-> TruncatedOrPadded(req[1].args)])

\* C1 witness: a request with more than 63 argument bytes went through
\* new, to_bytes and from_bytes and came back as a packet.
C1_Witness ==
    /\ req # None
    /\ pstage = "decoded"
    /\ Len(req[1].args) > 63
    /\ parsed # None

\* C2: after mark_bad(b) succeeds, for any block b of the chip, is_bad(b) is
\* true and translate(b) # b.
C2_MarkBadTranslates ==
    (ret.op = "mark_bad" /\ ret.res.ok /\ ret.block \in 0..(bbt.total_blocks - 1)) =>
        /\ is_bad(bbt, ret.block)
        /\ translate(bbt, ret.block) # ret.block

\* C3: in every state reachable through mark_bad and scan_factory_bad_blocks,
\* each bad block has at most one replacement, never reassigned once given,
\* and no replacement block is itself in the bad set.
C3_ReplacementInvariant ==
    [][/\ \A b \in DOMAIN bbt.entries :
              /\ b \in DOMAIN bbt'.entries
              /\ bbt'.entries[b].replacement = bbt.entries[b].replacement
       /\ \A b \in DOMAIN bbt'.entries :
              /\ Len(bbt'.entries[b].replacement) <= 1
              /\ \A r \in DOMAIN bbt'.entries :
                     bbt'.entries[b].replacement # Some(r)]_vars

\* C4: record_erase fails exactly when the erase would exceed the limit: on a
\* fresh block each of the first max_cycles calls succeeds and the
\* (max_cycles + 1)-th call returns WearLimitExceeded.
C4_EraseLimit ==
    ret.op = "record_erase" =>
        LET n == Calls(ret.block)
        IN  /\ n <= wear_manager.max_erase_cycles => ret.res.ok
            /\ n = wear_manager.max_erase_cycles + 1 =>
                   ret.res = Err(WearLimitExceeded(ret.block))

\* C5: erase_count <= max_erase_cycles for every block in every state
\* reachable through record_erase, the state left by a failed call included.
C5_EraseCountBounded ==
    \A b \in DOMAIN wear_manager.block_info :
        wear_manager.block_info[b].erase_count <= wear_manager.max_erase_cycles

\* C6: with wear_leveling set, prepare_block accounts one erase against the
\* physical block it is about to hand back, for a good block and for a bad
\* block resolved to its replacement alike, and a WearLimitExceeded from that
\* accounting aborts prepare_block with that error.
C6_PrepareAccountsErase ==
    [][(/\ ret'.op = "prepare_block"
        /\ options.wear_leveling
        /\ (is_bad(bbt, ret'.block) => options.skip_bad_blocks)) =>
           LET p == translate(bbt, ret'.block)
               acc == record_erase(wear_manager, p)
           IN  /\ get_erase_count(wear_manager', p) = get_erase_count(wear_manager, p) + 1
               /\ ret'.res = IF acc.res.ok THEN Ok(p) ELSE acc.res]_vars

\* C7: prepare_block on a block of the bad set returns the block's replacement
\* when skip_bad_blocks is set, and fails with BadBlock when it is not.
C7_BadBlockPrepare ==
    (ret.op = "prepare_block" /\ is_bad(bbt, ret.block)) =>
        IF options.skip_bad_blocks
        THEN /\ ret.res.ok
             /\ Some(ret.res.val) = bbt.entries[ret.block].replacement
        ELSE /\ ~ret.res.ok
             /\ ret.res.err = BadBlock(ret.block)

\* C7 witness: prepare_block was called on a bad block with skip_bad_blocks
\* set and returned a block other than the one asked for.
C7_Witness ==
    /\ ret.op = "prepare_block"
    /\ is_bad(bbt, ret.block)
    /\ options.skip_bad_blocks
    /\ ret.res.ok
    /\ ret.res.val # ret.block

\* The mode of the cloner that computed the mapping.
MappingMode == cloner[1].res.val.options.mode

\* C8: in SkipBadBlocks mode the mapping has no source bad block as a key, no
\* target bad block as a value, and maps distinct keys to distinct blocks.
C8_SkipBadMapping ==
    (mapping # None /\ MappingMode = "SkipBadBlocks") =>
        LET m == mapping[1].map
        IN  /\ \A k \in DOMAIN m : k \notin ToSet(mapping[1].source_bad)
            /\ \A k \in DOMAIN m : m[k] \notin ToSet(mapping[1].target_bad)
            /\ \A j, k \in DOMAIN m : j # k => m[j] # m[k]

\* C8 witness: a SkipBadBlocks mapping of at least two blocks was computed
\* with a bad block on the source and a bad block on the target chip.
C8_Witness ==
    /\ mapping # None
    /\ MappingMode = "SkipBadBlocks"
    /\ Cardinality(DOMAIN mapping[1].map) >= 2
    /\ \E b \in ToSet(mapping[1].source_bad) : b < cloner[1].res.val.source_total_blocks
    /\ \E b \in ToSet(mapping[1].target_bad) : b < cloner[1].res.val.target_total_blocks - 1

\* The capacity of a chip: page size x pages per block x total blocks.
Capacity(page_size, pages_per_block, total_blocks) ==
    page_size * pages_per_block * total_blocks

\* C9 as stated: construction succeeds for target capacity >= source capacity
\* and equal geometry, and returns ChipMismatch for every other pair.
C9_NewNeedsEqualGeometry ==
    cloner # None =>
        LET a == cloner[1].args
            fits == Capacity(a[4], a[5], a[6]) >= Capacity(a[1], a[2], a[3])
            same == a[1] = a[4] /\ a[2] = a[5]
        IN  IF fits /\ same
            THEN cloner[1].res.ok
            ELSE ~cloner[1].res.ok /\ cloner[1].res.err.kind = "ChipMismatch"

\* C9 amended: construction succeeds for every pair with target capacity >=
\* source capacity, whatever the geometry, and returns ChipMismatch for every
\* other pair.
C9_NewNeedsCapacity ==
    cloner # None =>
        LET a == cloner[1].args
            fits == Capacity(a[4], a[5], a[6]) >= Capacity(a[1], a[2], a[3])
        IN  IF fits
            THEN cloner[1].res.ok
            ELSE ~cloner[1].res.ok /\ cloner[1].res.err.kind = "ChipMismatch"

\* C9 witness: a cloner was constructed for chips of equal capacity and
\* different geometry.
C9_Witness ==
    /\ cloner # None
    /\ cloner[1].res.ok
    /\ cloner[1].args[1] # cloner[1].args[4]
    /\ Capacity(cloner[1].args[4], cloner[1].args[5], cloner[1].args[6])
         = Capacity(cloner[1].args[1], cloner[1].args[2], cloner[1].args[3])

\* C10: in Exact mode the mapping is the identity over the source blocks,
\* whatever the bad-block lists are.
C10_ExactIdentity ==
    (mapping # None /\ MappingMode = "Exact") =>
        LET m == mapping[1].map
        IN  /\ DOMAIN m = 0..(cloner[1].res.val.source_total_blocks - 1)
            /\ \A k \in DOMAIN m : m[k] = k

\* A page-read command as the protocol defines it (discriminant or legacy
\* alias) was the last packet the firmware processed.
ReadPageHandled ==
    /\ fw_log.cmd_data # <<>>
    /\ from_u8(fw_log.cmd_data[1]) = Some("NandReadPage")

RECURSIVE PayloadLen(_)
PayloadLen(packets) ==
    IF packets = <<>> THEN 0 ELSE Len(Head(packets)) + PayloadLen(Tail(packets))

\* A task is inside read_page and nothing is left to arrive: both endpoints
\* are empty and the firmware is back at read_packet.
ReadPageStarved(t) ==
    /\ tasks[t].pc \in {"response", "chunks"}
    /\ tasks[t].op[1].name = "dump_nand"
    /\ ep_out = <<>>
    /\ ep_in = <<>>

\* C11: for a page-read command the firmware first writes the response packet
\* (command echo, status) and then the payload in chunks of at most 64 bytes
\* that add up to the announced length; the host's read_page is never left
\* waiting for bytes that will not come, and what dump_nand returns holds
\* exactly the announced number of bytes for each page.
C11_PageReadFraming ==
    /\ ReadPageHandled =>
          /\ fw_log.written # <<>>
          /\ Head(fw_log.written) = <<fw_log.cmd_data[1], Status_Ok>>
          /\ \A k \in 2..Len(fw_log.written) :
                Len(fw_log.written[k]) <= PACKET_SIZE
          /\ PayloadLen(Tail(fw_log.written))
                = u16_from_le_bytes(fw_log.cmd_data[6], fw_log.cmd_data[7])
    /\ \A t \in Tasks :
          /\ ~ReadPageStarved(t)
          /\ (/\ tasks[t].pc = "done"
              /\ tasks[t].op[1].name = "dump_nand"
              /\ tasks[t].result[1].ok)
             => Len(tasks[t].result[1].val)
                   = tasks[t].op[1].num_pages * tasks[t].op[1].page_size

\* A task has written a command and has not yet read all of its answer.
InFlight(t) == tasks[t].pc \in {"response", "chunks"}

TimeBudget(op) ==
    CASE op = "read_page" -> 100
      [] op = "program_page" -> 700
      [] op = "erase_block" -> 5000

\* C13: a ready/OIP poll never waits beyond the time budget of its operation:
\* a read, program or erase whose chip does not signal ready has left
\* wait_ready by the time the budget is used up.
C13_PollBounded ==
    nand.pc = "wait_ready" => nand.elapsed <= TimeBudget(nand.op)

\* The bytes that name a command: the discriminants of the taxonomy and the
\* legacy aliases 0x03..0x07.
KnownBytes == {CommandCode(cmd) : cmd \in Command} \cup (3..7)

\* C14: a command byte that is neither a discriminant nor a legacy alias
\* decodes to no command and to no packet, and a buffer shorter than 64 bytes
\* decodes to no packet.
C14_UnknownDecodesToNothing ==
    /\ (wire # <<>> /\ wire[1] \notin KnownBytes) => from_u8(wire[1]) = None
    /\ (/\ pstage = "decoded"
        /\ (Len(wire) < PACKET_SIZE \/ wire[1] \notin KnownBytes))
       => parsed = None

\* A full-length buffer with an unknown command byte has been decoded.
C14_Witness ==
    /\ pstage = "decoded"
    /\ Len(wire) >= PACKET_SIZE
    /\ wire[1] \notin KnownBytes
    /\ parsed = None

\* A step in which mark_bad(block, _) returns.
MarkBadReturns(block) == ret'.op = "mark_bad" /\ ret'.block = block

\* C15: mark_bad on a block that is already bad returns the replacement the
\* table holds for it, which is what the call that made it bad returned, and
\* changes neither bad_count nor available_spares; called twice in a row it
\* returns the same result twice.
C15_MarkBadIdempotent ==
    [][\A block \in TestBlocks :
          (is_bad(bbt, block) /\ MarkBadReturns(block))
          => /\ ret'.res = Ok(get_replacement(bbt, block))
             /\ (ret.op = "mark_bad" /\ ret.block = block) => ret'.res = ret.res
             /\ bad_count(bbt') = bad_count(bbt)
             /\ available_spares(bbt') = available_spares(bbt)]_vars

\* mark_bad has just returned the first spare although two blocks are bad:
\* a call on a block that had been marked before.
C15_Witness ==
    /\ ret.op = "mark_bad"
    /\ bad_count(bbt) = 2
    /\ ret.res = Ok(Some(bbt.spare_blocks[1]))
    /\ get_replacement(bbt, ret.block) = Some(bbt.spare_blocks[1])

\* C16: with no spare left, mark_bad on a block that is not bad fails with
\* NoSpareBlocks and leaves the table as it was.
C16_ExhaustedPoolFails ==
    [][\A block \in TestBlocks :
          (/\ available_spares(bbt) = 0
           /\ ~is_bad(bbt, block)
           /\ MarkBadReturns(block))
          => /\ ret'.res = Err(NoSpareBlocks)
             /\ bbt' = bbt]_vars

\* mark_bad has failed with NoSpareBlocks on a block that is not bad.
C16_Witness ==
    /\ ret.op = "mark_bad"
    /\ ret.res = Err(NoSpareBlocks)
    /\ available_spares(bbt) = 0
    /\ ~is_bad(bbt, ret.block)

\* C17: get_erase_count(B) is the number of record_erase calls made on B,
\* whatever was recorded on other blocks in between, and 0 for a block that
\* was never erased.
C17_EraseCountIsCalls ==
    \A block \in WearBlocks :
        get_erase_count(wear_manager, block) = Calls(block)

\* One block has been erased several times, up to and past the limit, with
\* another block erased in between, and a third state of affairs, a block
\* never erased, is covered by the blocks that are absent from erase_calls.
C17_Witness ==
    \E b, c \in WearBlocks :
        /\ b # c
        /\ Calls(b) > wear_manager.max_erase_cycles
        /\ Calls(c) = 1
        /\ get_erase_count(wear_manager, b) = Calls(b)

\* C18: get_modified_blocks returns exactly the distinct blocks passed to
\* mark_modified since the last clear_modified (or since the tracker was
\* made), whatever checksums were stored in between; clear_modified empties
\* the set and leaves the stored checksums as they were.
C18_DirtySetExact ==
    /\ [](get_modified_blocks(tracker) = Ascending(ToSet(marked)))
    /\ [][ClearModified =>
            /\ get_modified_blocks(tracker') = <<>>
            /\ modified_count(tracker') = 0
            /\ tracker'.block_checksums = tracker.block_checksums]_vars

\* After a backup, with checksums stored, a block has been marked twice and
\* another once.
C18_Witness ==
    /\ tracker.last_backup > 0
    /\ tracker.block_checksums # <<>>
    /\ Len(marked) = 3
    /\ modified_count(tracker) = 2

\* The parameter page carries the ONFI signature.
HasSignature(data) ==
    Len(data) >= 4 /\ SubSeq(data, 1, 4) = ONFI_SIGNATURE

\* A geometry field of a full parameter page is zero: page size, pages per
\* block, blocks per LUN or LUN count.
ZeroGeometry(data) ==
    /\ Len(data) >= ONFI_PAGE_LEN
    /\ \/ u32_from_le_bytes(data, 80) = 0
       \/ u32_from_le_bytes(data, 92) = 0
       \/ u32_from_le_bytes(data, 96) = 0
       \/ At(data, 100) = 0

\* C19: the parser returns nothing when the page lacks the ONFI signature or
\* when a geometry field is zero.
C19_NoPartialDescriptor ==
    (/\ onfi.stage = "parsed"
     /\ (~HasSignature(onfi.data) \/ ZeroGeometry(onfi.data)))
    => onfi.info = None

\* C20: in the field built by GaloisField::new, exp[log[x]] = x for every
\* x in 1..8191, alpha(0) = 1 and alpha(8191) = alpha(0), and
\* div(mul(a, b), b) = a for the nonzero a and b queried.  While new() runs,
\* the power of alpha it holds comes back to 1 only after all 8191 rounds,
\* which is what gives every nonzero element a log.
C20_FieldClosure ==
    /\ (gf.stage = "new" /\ gf.i > 0 /\ gf.i < GF_N) => gf.x # 1
    /\ gf.stage \in {"built", "queried"} =>
          /\ \A x \in 1..GF_N :
                /\ gf.log_table[x] >= 0
                /\ gf.exp_table[gf.log_table[x]] = x
          /\ alpha(gf, 0) = 1
          /\ alpha(gf, GF_N) = alpha(gf, 0)
    /\ (gf.stage = "queried" /\ gf.query[1].op = "mul_div") =>
          /\ gf.query[1].product \in 1..GF_N
          /\ gf.query[1].quotient = gf.query[1].a
    /\ (gf.stage = "queried" /\ gf.query[1].op = "alpha"
                             /\ gf.query[1].i \in {0, GF_N}) =>
          gf.query[1].value = 1

\* div(mul(a, b), b) has been computed for the largest element and a
\* different partner, and the product wrapped around the exponent range.
C20_Witness ==
    /\ gf.stage = "queried"
    /\ gf.query[1].op = "mul_div"
    /\ gf.query[1].a = GF_N
    /\ gf.query[1].b # 1
    /\ gf.query[1].quotient = GF_N
    /\ gf.log_table[gf.query[1].a] + gf.log_table[gf.query[1].b] >= GF_N

\* C21: for a 512-byte sector d with Hamming code e = calculate(d),
\* correct(d, e) leaves d unchanged and reports 0 corrected bits; after exactly
\* one bit of d was flipped, correct restores d and reports 1 corrected bit.
C21_HammingSingleBit ==
    hamming.stage = "corrected" =>
        /\ hamming.data = hamming.original
        /\ hamming.res = Some(Ok(IF hamming.flipped = None THEN 0 ELSE 1))

\* C22: for a 512-byte sector d and t in {4, 8}, BchEcc(t).correct applied to
\* d with the code BchEcc(t).calculate(d) returns 0 corrected bits, and after
\* k <= t bits of d were flipped it returns k corrected bits.
C22_BchCorrectedCount ==
    bch.stage = "corrected" => bch.res = Some(Ok(Cardinality(bch.flipped)))

\* The full pages both dumps have, and those among them that differ.
ComparedPages ==
    0..((Min(Len(dumps.dump1), Len(dumps.dump2)) \div dumps.analyzer.page_size) - 1)
PageOf(dump, page) ==
    Range(dump, page * dumps.analyzer.page_size,
          (page + 1) * dumps.analyzer.page_size)
DifferingPages ==
    {page \in ComparedPages : PageOf(dumps.dump1, page) # PageOf(dumps.dump2, page)}

\* The classification the claim gives a differing page.
ClaimedChangeType(page) ==
    LET page1 == PageOf(dumps.dump1, page)
        page2 == PageOf(dumps.dump2, page)
    IN  IF \A k \in 1..Len(page2) : page2[k] = 255 THEN "Erased"
        ELSE IF Cardinality({k \in 1..Len(page2) : page1[k] # page2[k]}) <= 10
        THEN "BitFlip"
        ELSE "Modified"

\* C23: compare_dumps classifies every differing page: as erased when the
\* target page is all 0xFF, otherwise as bit-flip when at most 10 bytes
\* differ, otherwise as modified.
C23_PagesClassified ==
    dumps.stage = "compared" =>
        LET regions == dumps.diff[1].modified_regions
        IN  \A page \in DifferingPages :
               \E k \in 1..Len(regions) :
                  /\ regions[k].offset = page * dumps.analyzer.page_size
                  /\ regions[k].change_type = ClaimedChangeType(page)

\* The host commands the claim names, and the firmware operation each one
\* asks for (the firmware calls the read-id operation ReadId).
RawNandCommands ==
    {"NandCmd", "NandAddr", "NandReadPage", "NandWritePage", "NandReadId"}
FirmwareOperation(cmd) == IF cmd = "NandReadId" THEN "ReadId" ELSE cmd

\* C24: host and device agree on command bytes: the byte that the host
\* encoder emits for NandCmd, NandAddr, NandReadPage, NandWritePage and
\* NandReadId is decoded by the STM32 firmware's Command::from_u8 to the same
\* operation, so such a request is never taken for an unknown command.
C24_HostFirmwareAgree ==
    (/\ pstage \in {"encoded", "decoded"}
     /\ req # None
     /\ req[1].cmd \in RawNandCommands)
        => fw_from_u8(wire[1]) = Some(FirmwareOperation(req[1].cmd))

\* What programmer.prepare_block(block) would return in the current state.
Resolves(block) == prepare_block(bbt, wear_manager, options, block).res

\* C25: logical-to-physical translation never aliases: after any sequence of
\* mark_bad calls, no two distinct logical blocks that prepare_block accepts
\* resolve to the same physical block; a spare block handed out as a
\* replacement is not also reachable under its own block number.
C25_NoAliasing ==
    \A a \in TestBlocks, b \in TestBlocks :
        (a # b /\ Resolves(a).ok /\ Resolves(b).ok)
            => Resolves(a).val # Resolves(b).val

\* The source blocks a mapping was asked to copy: all of them, less the bad
\* ones when the cloner's mode is SkipBadBlocks (the loop's `continue`).
BlocksToCopy ==
    {b \in 0..(cloner[1].res.val.source_total_blocks - 1) :
        ~(cloner[1].res.val.options.mode = "SkipBadBlocks"
          /\ b \in ToSet(mapping[1].source_bad))}

\* C26: create_block_mapping is total over the blocks to be copied: for any
\* cloner that ChipCloner::new accepted and any bad-block lists, every source
\* block the mode does not skip is a key of the returned mapping.
C26_MappingTotal ==
    mapping # None => \A b \in BlocksToCopy : b \in DOMAIN mapping[1].map

\* C27: in WearAware mode create_block_mapping treats bad blocks as
\* SkipBadBlocks does: no source bad block is a key of the mapping and no
\* target bad block is a value.
C27_WearAwareSkipsBad ==
    (mapping # None /\ cloner[1].res.val.options.mode = "WearAware")
        => /\ \A b \in DOMAIN mapping[1].map : b \notin ToSet(mapping[1].source_bad)
           /\ \A b \in DOMAIN mapping[1].map :
                  mapping[1].map[b] \notin ToSet(mapping[1].target_bad)

\* C28: after scan_factory_bad_blocks(markers), for any marker list and any
\* spare-pool size, every block whose marker byte is not 0xFF is reported bad
\* by is_bad, and no block whose marker byte is 0xFF has been newly marked bad.
C28_ScanMarksFactoryBad ==
    [][ret'.op = "scan_factory_bad_blocks"
        => \A i \in 1..Len(ret'.markers) :
              LET block == ret'.markers[i][1]
                  marker == ret'.markers[i][2]
              IN  /\ marker # GOOD_MARKER => is_bad(bbt', block)
                  /\ (marker = GOOD_MARKER /\ is_bad(bbt', block))
                         => is_bad(bbt, block)]_vars

\* The low 24 bits of a row address, most significant byte first.
Row3(row) == <<(row \div 65536) % 256, (row \div 256) % 256, row % 256>>

PollFrame == <<GET_FEATURE, STATUS>>

\* The frames of an operation: a fixed command prefix, then status polls only;
\* while it waits the last status had OIP set, and it has returned exactly
\* when a status with OIP clear was read, with success = (fail bit clear).
RunsAs(prefix, fail) ==
    /\ Len(spi.bus) > Len(prefix)
    /\ SubSeq(spi.bus, 1, Len(prefix)) = prefix
    /\ \A i \in (Len(prefix) + 1)..Len(spi.bus) : spi.bus[i] = PollFrame
    /\ spi.pc \in {"wait_ready", "done"}
    /\ spi.pc = "wait_ready" <=> spi.status % 2 = 1
    /\ spi.pc = "done" => spi.res = Some((spi.status \div fail) % 2 = 0)

\* C29: SPI NAND command ordering: write_page issues WRITE_ENABLE, then
\* PROGRAM_LOAD with column and data, then PROGRAM_EXECUTE with the 3-byte row,
\* then polls OIP and reports success exactly when P_FAIL is clear;
\* erase_block issues WRITE_ENABLE, then BLOCK_ERASE with the 3-byte row, then
\* polls and reports success exactly when E_FAIL is clear.  In neither
\* operation is a PROGRAM_EXECUTE or BLOCK_ERASE frame sent without a
\* WRITE_ENABLE frame before it.
C29_SpiCommandOrdering ==
    /\ spi.op = "write_page"
          => RunsAs(<< <<6>>, <<2, 0, 0>> \o spi.data, <<16>> \o Row3(spi.row) >>, 8)
    /\ spi.op = "erase_block"
          => RunsAs(<< <<6>>, <<216>> \o Row3(spi.row) >>, 4)
    /\ spi.op \in {"write_page", "erase_block"}
          => \A i \in 1..Len(spi.bus) :
                spi.bus[i][1] \in {16, 216} => \E j \in 1..(i - 1) : spi.bus[j] = <<6>>

\* A write_page of a row above 24 bits that polled a busy chip and then
\* reported a program failure.
C29_Witness ==
    /\ spi.op = "write_page"
    /\ spi.row > 16777215
    /\ spi.data # <<>>
    /\ spi.polls > 0
    /\ spi.pc = "done"
    /\ spi.res = Some(FALSE)

\* The number of levels of children under a section.
RECURSIVE Nesting(_)
Nesting(section) ==
    IF section.children = <<>>
    THEN 0
    ELSE 1 + CHOOSE m \in {Nesting(section.children[k]) : k \in 1..Len(section.children)} :
                 \A k \in 1..Len(section.children) : Nesting(section.children[k]) <= m

UnpackedSections == unpacker.result[1].val.sections

\* C30: FirmwareUnpacker::unpack returns on every input, and recursion into a
\* section happens only when recursive is set and depth < max_depth: no
\* extracted section is nested deeper than max_depth, and with recursive =
\* false no section has children.
C30_UnpackBounded ==
    unpacker.stage = "unpacked"
        => /\ unpacker.result # None
           /\ unpacker.result[1].ok
           /\ \A i \in 1..Len(UnpackedSections) :
                 /\ Nesting(UnpackedSections[i]) <= unpacker.u.max_depth
                 /\ ~unpacker.u.recursive => UnpackedSections[i].children = <<>>

\* A recursive unpack that found a section nested exactly max_depth deep,
\* with max_depth above one.
C30_Witness ==
    /\ unpacker.stage = "unpacked"
    /\ unpacker.u.recursive
    /\ unpacker.u.max_depth > 1
    /\ \E i \in 1..Len(UnpackedSections) :
          Nesting(UnpackedSections[i]) = unpacker.u.max_depth

====
